---- MODULE Spec2Model ----
(***************************************************************************)
(* The simple file system of src/3/sfs_api.c as a state machine.  One      *)
(* action per API call; every call is an operator from the state before    *)
(* the call to the state after it together with the value returned.        *)
(*                                                                         *)
(* The layout constants keep the names of sfs_api.h and are scaled down    *)
(* (a block of 2 bytes, a block pointer of 2 bytes, 3 inodes, 1 direct     *)
(* pointer, 1 slot in the index block, 3 data blocks) so that every path   *)
(* of the code (direct blocks, the lazily allocated index block,           *)
(* exhaustion of the bitmap, the file size limit) is reached within a      *)
(* state space TLC can enumerate.                                          *)
(*                                                                         *)
(* The shell of src/1/stephen_lu_shell.c is a second state machine,        *)
(* ShellSpec, over variables of its own; MAX_BG_PROCESSES is scaled down   *)
(* to 2.  The thread library of src/2/sut.c is a third state machine,      *)
(* SutSpec, with MAX_THREADS scaled down to 2.  Each machine leaves the    *)
(* variables of the others unchanged.                                      *)
(***************************************************************************)
EXTENDS Integers, Sequences, FiniteSets, TLC

MAX_FILENAME == 2
BLOCK_SIZE == 2
NUM_INODES == 3
NUM_FILE_INODES == NUM_INODES - 1
NUM_DIRECT_POINTERS == 1
PTR_SIZE == 2
NUM_POINTERS_IN_INDIRECT == (BLOCK_SIZE \div PTR_SIZE) + 1
MAX_DATA_BLOCKS_PER_FILE == NUM_DIRECT_POINTERS + NUM_POINTERS_IN_INDIRECT
MAX_DATA_BLOCKS_SCALED_DOWN == 3
NUM_INODE_BLOCKS == 1
NUM_DATA_BLOCKS_FOR_DIR == 1
NUM_DATA_BLOCKS_FOR_BITMAP == 1
DATA_BLOCKS_OFFSET == 1 + NUM_DATA_BLOCKS_FOR_DIR + NUM_INODE_BLOCKS
BITMAP_BLOCK_OFFSET == DATA_BLOCKS_OFFSET + MAX_DATA_BLOCKS_SCALED_DOWN
NUM_TOTAL_BLOCKS ==
    1 + NUM_DATA_BLOCKS_FOR_DIR + NUM_INODE_BLOCKS
      + MAX_DATA_BLOCKS_SCALED_DOWN + NUM_DATA_BLOCKS_FOR_BITMAP
(* num_files is an unsigned int: its arithmetic wraps.  The width is scaled *)
(* to 2 bits (TLC's integers stop at 2^31 - 1).                            *)
UINT_MOD == 4
(* A byte of a block holds 0 .. BYTE_MOD - 1. *)
BYTE_MOD == 256

(* Bounds: the longest buffer of a read or write, the number of byte       *)
(* patterns a write chooses from, and the number of calls after the first *)
(* mksfs(1) that a run of the machine makes.                              *)
MaxLen == 3
MaxTag == 2
MaxCalls == 5

VARIABLES super, inodes, fdt, root, free_blocks, num_files, curr_file,
          disk, ub, calls

(* The globals of the file system and the budget of calls. *)
sfs_vars == <<super, inodes, fdt, root, free_blocks, num_files, curr_file,
              disk, ub, calls>>

(* The shell of src/1: its globals processes, numBgProcesses, active_pid;  *)
(* the locals pid and bg of main and its position pc; the children of the  *)
(* shell as the kernel has them: running, zombies (exited, not yet waited  *)
(* for), started_bg (those forked for a command with a trailing &); the    *)
(* pending SIGCHLD and whether handle_sigchld is on the stack.             *)
VARIABLES processes, numBgProcesses, active_pid, pid, bg, pc,
          running, zombies, started_bg, sigchld, handling

shell_vars == <<processes, numBgProcesses, active_pid, pid, bg, pc,
                running, zombies, started_bg, sigchld, handling>>

(* The thread library of src/2/sut.c: its globals readyQ, waitQ,           *)
(* numthreads, cur_c_thread, cur_i_thread; threadcontext, the position     *)
(* saved in each task's ucontext; exec_pc, where each of the two kernel    *)
(* threads c_exec and i_exec stands (in its loop, before its swapcontext,  *)
(* inside a task, cancelled); cancelstate and cancel_pending, the pthread  *)
(* cancellation state of the two; main_pc, the position of the caller of   *)
(* sut_create and sut_shutdown; tdescs and freed, the descriptors          *)
(* allocated by sut_create and freed by sut_exit; steps, the number of     *)
(* library calls each task has made; sut_ub, set when a context is resumed *)
(* while it is executing.                                                  *)
VARIABLES readyQ, waitQ, numthreads, cur_c_thread, cur_i_thread,
          threadcontext, exec_pc, cancelstate, cancel_pending, main_pc,
          tdescs, freed, steps, sut_ub

sut_vars == <<readyQ, waitQ, numthreads, cur_c_thread, cur_i_thread,
              threadcontext, exec_pc, cancelstate, cancel_pending, main_pc,
              tdescs, freed, steps, sut_ub>>

vars == <<sfs_vars, shell_vars, sut_vars>>

(***************************************************************************)
(* Index sets and inputs.                                                  *)
(***************************************************************************)
InodeIdx == 0 .. (NUM_INODES - 1)
FileInodeIdx == 1 .. (NUM_INODES - 1)
DirIdx == 0 .. (NUM_FILE_INODES - 1)
DirectIdx == 0 .. (NUM_DIRECT_POINTERS - 1)
PtrIdx == 0 .. (NUM_POINTERS_IN_INDIRECT - 2)
BitmapIdx == 0 .. (MAX_DATA_BLOCKS_SCALED_DOWN - 1)
DataBlocks == DATA_BLOCKS_OFFSET .. (BITMAP_BLOCK_OFFSET - 1)
CellIdx == 0 .. (BLOCK_SIZE - 1)

(* File names are strings of characters 1..2; <<>> is the empty string and *)
(* <<1, 1>> has strlen = MAX_FILENAME, one more than open accepts.         *)
Names == {<<>>, <<1>>, <<2>>, <<1, 1>>}
FileIDs == -1 .. NUM_INODES
Lengths == -1 .. MaxLen
Locs == -1 .. ((MAX_DATA_BLOCKS_PER_FILE * BLOCK_SIZE))

(* The caller's buffer of a write: a sequence of length cells alternating   *)
(* between tag and the next non-zero value, so neighbouring cells differ.  *)
Pattern(tag, length) ==
    [k \in 1 .. length |-> IF k % 2 = 1 THEN tag ELSE (tag % MaxTag) + 1]

ZeroBlock == [c \in CellIdx |-> 0]

(* A block read as unsigned int ptr_buff[]: PTR_SIZE bytes, little-endian, *)
(* make one pointer; and the bytes such an array is written back as.       *)
RECURSIVE LoadPtr(_, _, _)
LoadPtr(block, p, k) ==
    IF k >= PTR_SIZE THEN 0
    ELSE block[p * PTR_SIZE + k] + BYTE_MOD * LoadPtr(block, p, k + 1)

RECURSIVE BytePow(_)
BytePow(k) == IF k = 0 THEN 1 ELSE BYTE_MOD * BytePow(k - 1)

AsPtrBuff(block) == [p \in PtrIdx |-> LoadPtr(block, p, 0)]
AsBlock(ptr_buff) ==
    [c \in CellIdx |-> (ptr_buff[c \div PTR_SIZE] \div BytePow(c % PTR_SIZE)) % BYTE_MOD]

Min(a, b) == IF a <= b THEN a ELSE b

(***************************************************************************)
(* The state as one record, for the operators that compute a call.         *)
(***************************************************************************)
St == [super |-> super, inodes |-> inodes, fdt |-> fdt, root |-> root,
       free_blocks |-> free_blocks, num_files |-> num_files,
       curr_file |-> curr_file, disk |-> disk]

superblock_t == [magic |-> "0xACBD0005", block_size |-> BLOCK_SIZE,
                 fs_size |-> BLOCK_SIZE * NUM_TOTAL_BLOCKS,
                 inode_table_len |-> NUM_INODE_BLOCKS, root_dir_inode |-> 0]

(* init_super: the five fields of the superblock. *)
init_super(s) == [s EXCEPT !.super = superblock_t]

(* The globals of a process that has not called mksfs yet: all zero. *)
ZeroState ==
    [super |-> [magic |-> "0", block_size |-> 0, fs_size |-> 0,
                inode_table_len |-> 0, root_dir_inode |-> 0],
     inodes |-> [i \in InodeIdx |->
                   [mode |-> 0, link_cnt |-> 0, size |-> 0,
                    direct |-> [d \in DirectIdx |-> 0], indirect |-> 0]],
     fdt |-> [j \in InodeIdx |-> [inode |-> 0, rwptr |-> 0]],
     root |-> [i \in DirIdx |-> [mode |-> 0, names |-> <<>>]],
     free_blocks |-> [b \in BitmapIdx |-> 0],
     num_files |-> 0,
     curr_file |-> 0,
     disk |-> [super |-> [magic |-> "0", block_size |-> 0, fs_size |-> 0,
                          inode_table_len |-> 0, root_dir_inode |-> 0],
               inodes |-> [i \in InodeIdx |->
                   [mode |-> 0, link_cnt |-> 0, size |-> 0,
                    direct |-> [d \in DirectIdx |-> 0], indirect |-> 0]],
               root |-> [i \in DirIdx |-> [mode |-> 0, names |-> <<>>]],
               bitmap |-> [b \in BitmapIdx |-> 0],
               data |-> [b \in DataBlocks |-> ZeroBlock]]]

(* init_fresh_disk: a new backing file, every block filled with zeros. *)
init_fresh_disk(s) == [s EXCEPT !.disk = ZeroState.disk]

(* get_free_bitmap_address: the first bitmap slot holding 0, else -1. *)
get_free_bitmap_address(fb) ==
    IF \E i \in BitmapIdx : fb[i] = 0
    THEN CHOOSE i \in BitmapIdx : fb[i] = 0 /\ \A k \in BitmapIdx : k < i => fb[k] # 0
    ELSE -1

(* What a call hands back: the state after it, the value returned, the     *)
(* bytes put in the caller's buffer, and whether the call indexed an array *)
(* out of bounds or followed a block pointer outside the data region.      *)
Result(s, r) == [st |-> s, ret |-> r, out |-> <<>>, ub |-> FALSE]
Undefined(s) == [st |-> s, ret |-> 0, out |-> <<>>, ub |-> TRUE]

(***************************************************************************)
(* mksfs                                                                   *)
(***************************************************************************)
mksfs_fresh(s0) ==
    LET s == init_super(s0)
        ino == [i \in InodeIdx |->
                  IF i = 0 THEN [s.inodes[0] EXCEPT !.link_cnt = 1]
                  ELSE [s.inodes[i] EXCEPT !.link_cnt = 0]]
        fd == [j \in InodeIdx |->
                  IF j = 0 THEN [inode |-> 0, rwptr |-> 0]
                  ELSE [s.fdt[j] EXCEPT !.inode = -1]]
        rt == [i \in DirIdx |-> [mode |-> 0, names |-> <<>>]]
        fb == [b \in BitmapIdx |-> 0]
        d0 == init_fresh_disk(s).disk
    IN  [s EXCEPT !.inodes = ino, !.fdt = fd, !.root = rt,
                  !.free_blocks = fb, !.num_files = 0, !.curr_file = 0,
                  !.disk = [d0 EXCEPT !.super = s.super, !.inodes = ino,
                                      !.root = rt, !.bitmap = fb]]

mksfs_load(s) ==
    [s EXCEPT !.super = s.disk.super,
              !.inodes = s.disk.inodes,
              !.root = s.disk.root,
              !.free_blocks = s.disk.bitmap,
              !.curr_file = 0,
              !.num_files =
                  Cardinality({i \in FileInodeIdx : s.disk.inodes[i].link_cnt # 0}),
              !.fdt = [j \in InodeIdx |->
                         IF j = 0 THEN [inode |-> 0, rwptr |-> 0]
                         ELSE [inode |-> -1, rwptr |-> 0]]]

mksfs(s, fresh) ==
    Result(IF fresh # 0 THEN mksfs_fresh(s) ELSE mksfs_load(s), 0)

(***************************************************************************)
(* sfs_getnextfilename, sfs_getfilesize                                    *)
(***************************************************************************)
(* The directory indices with mode = 1 below i: the value of counter when  *)
(* the scan reaches entry i.                                               *)
ActiveBelow(rt, i) == Cardinality({k \in DirIdx : k < i /\ rt[k].mode = 1})

sfs_getnextfilename(s) ==
    LET hit == {i \in DirIdx : s.root[i].mode = 1
                               /\ ActiveBelow(s.root, i) = s.curr_file}
    IN  IF s.num_files > 0 /\ hit # {}
        THEN LET i == CHOOSE i \in hit : TRUE
             IN  [st |-> [s EXCEPT !.curr_file = s.curr_file + 1],
                  ret |-> 1, out |-> s.root[i].names, ub |-> FALSE]
        ELSE Result([s EXCEPT !.curr_file = 0], 0)

(* The loop does not stop at the first match: the last matching entry wins. *)
sfs_getfilesize(s, path) ==
    LET hit == {i \in DirIdx : s.root[i].names = path}
    IN  IF hit = {} THEN -1
        ELSE LET i == CHOOSE i \in hit : \A k \in hit : k <= i
             IN  s.inodes[i + 1].size

(***************************************************************************)
(* sfs_fopen                                                               *)
(***************************************************************************)
FirstFreeFd(fd) ==
    IF \E j \in FileInodeIdx : fd[j].inode = -1
    THEN CHOOSE j \in FileInodeIdx :
            fd[j].inode = -1 /\ \A k \in FileInodeIdx : k < j => fd[k].inode # -1
    ELSE -1

(* fopen_existing without the test of line 211 for a descriptor that is    *)
(* already bound to the inode.                                             *)
fopen_existing_no_dup_test(s, name, i) ==
    LET free_fd == FirstFreeFd(s.fdt)
    IN  IF free_fd = -1 THEN Result(s, -1)
        ELSE Result([s EXCEPT !.fdt[free_fd] =
                                   [inode |-> i + 1,
                                    rwptr |-> sfs_getfilesize(s, name)],
                              !.root[i].mode = 1,
                              !.inodes[i + 1].link_cnt = 1],
                    free_fd)

(* fopen_existing with the descriptor positioned at offset 0 instead of at  *)
(* the size of the file (line 218).                                        *)
fopen_existing_rwptr_zero(s, name, i) ==
    LET free_fd == FirstFreeFd(s.fdt)
    IN  IF \E j \in FileInodeIdx : s.fdt[j].inode = i + 1 THEN Result(s, -1)
        ELSE IF free_fd = -1 THEN Result(s, -1)
        ELSE Result([s EXCEPT !.fdt[free_fd] = [inode |-> i + 1, rwptr |-> 0],
                              !.root[i].mode = 1,
                              !.inodes[i + 1].link_cnt = 1],
                    free_fd)

(* Lines 205-223: the name equals the names field of directory entry i. *)
fopen_existing(s, name, i) ==
    LET free_fd == FirstFreeFd(s.fdt)
    IN  IF \E j \in FileInodeIdx : s.fdt[j].inode = i + 1 THEN Result(s, -1)
        ELSE IF free_fd = -1 THEN Result(s, -1)
        ELSE Result([s EXCEPT !.fdt[free_fd] =
                                   [inode |-> i + 1,
                                    rwptr |-> sfs_getfilesize(s, name)],
                              !.root[i].mode = 1,
                              !.inodes[i + 1].link_cnt = 1],
                    free_fd)

(* Lines 225-250: the first inode with link_cnt = 0, the first free slot. *)
fopen_create(s, name) ==
    LET free == {i \in FileInodeIdx : s.inodes[i].link_cnt = 0}
        j == FirstFreeFd(s.fdt)
    IN  IF free = {} \/ j = -1 THEN Result(s, -1)
        ELSE LET i == CHOOSE i \in free : \A k \in free : i <= k
                 ino == [s.inodes EXCEPT ![i].link_cnt = 1,
                                         ![i].mode = 1,
                                         ![i].size = 0]
                 rt == [s.root EXCEPT ![i - 1] = [mode |-> 1, names |-> name]]
             IN  Result([s EXCEPT !.fdt[j] = [inode |-> i, rwptr |-> 0],
                                  !.num_files = (s.num_files + 1) % UINT_MOD,
                                  !.inodes = ino,
                                  !.root = rt,
                                  !.disk.inodes = ino,
                                  !.disk.root = rt],
                        j)

sfs_fopen(s, name) ==
    LET match == {i \in DirIdx : s.root[i].names = name}
    IN  IF Len(name) >= MAX_FILENAME THEN Result(s, -1)
        ELSE IF match # {}
             THEN fopen_existing(s, name, CHOOSE i \in match : \A k \in match : i <= k)
             ELSE fopen_create(s, name)

(***************************************************************************)
(* sfs_fclose, sfs_fseek                                                   *)
(***************************************************************************)
(* sfs_fclose without the test of line 266 that the descriptor is in use. *)
sfs_fclose_no_inuse_test(s, fileID) ==
    IF fileID > 0 /\ fileID < NUM_INODES
    THEN Result([s EXCEPT !.fdt[fileID] = [inode |-> -1, rwptr |-> 0]], 0)
    ELSE Result(s, -1)

(* sfs_fclose whose range test of line 264 lets descriptor 0 through. *)
sfs_fclose_from_zero(s, fileID) ==
    IF fileID >= 0 /\ fileID < NUM_INODES /\ s.fdt[fileID].inode # -1
    THEN Result([s EXCEPT !.fdt[fileID] = [inode |-> -1, rwptr |-> 0]], 0)
    ELSE Result(s, -1)

sfs_fclose(s, fileID) ==
    IF fileID > 0 /\ fileID < NUM_INODES /\ s.fdt[fileID].inode # -1
    THEN Result([s EXCEPT !.fdt[fileID] = [inode |-> -1, rwptr |-> 0]], 0)
    ELSE Result(s, -1)

(* sfs_fseek without the test of line 518 against the size of the file. *)
sfs_fseek_no_eof_test(s, fileID, loc) ==
    IF fileID > 0 /\ fileID < NUM_INODES
    THEN LET f == s.fdt[fileID]
         IN  IF \/ f.inode = -1
                \/ f.inode = 0
                \/ loc < 0
                \/ loc >= MAX_DATA_BLOCKS_PER_FILE * BLOCK_SIZE
             THEN Result(s, -1)
             ELSE Result([s EXCEPT !.fdt[fileID].rwptr = loc], 0)
    ELSE Result(s, -1)

sfs_fseek(s, fileID, loc) ==
    IF fileID > 0 /\ fileID < NUM_INODES
    THEN LET f == s.fdt[fileID]
         IN  IF \/ f.inode = -1
                \/ f.inode = 0
                \/ loc < 0
                \/ loc > s.inodes[f.inode].size
                \/ loc >= MAX_DATA_BLOCKS_PER_FILE * BLOCK_SIZE
             THEN Result(s, -1)
             ELSE Result([s EXCEPT !.fdt[fileID].rwptr = loc], 0)
    ELSE Result(s, -1)

(***************************************************************************)
(* sfs_fwrite                                                              *)
(***************************************************************************)
(* The locals of the block loop of sfs_fwrite (lines 309-317).  ptr_buff   *)
(* is read only after it was loaded or zeroed, so its first value is never *)
(* observed.                                                               *)
fwrite_locals(s, fileID, length) ==
    LET f == s.fdt[fileID]
        node == s.inodes[f.inode]
    IN  [node |-> node,
         fb |-> s.free_blocks,
         data |-> s.disk.data,
         rwptr |-> f.rwptr,
         bytes_written |-> 0,
         bytes_to_write |-> length,
         did_write_to_disk |-> 1,
         current_block |-> f.rwptr \div BLOCK_SIZE,
         rwptr_size_offset |-> 0 - (node.size - f.rwptr),
         did_load_ptr_buff |-> IF node.indirect > 0 THEN 1 ELSE 0,
         ptr_buff |-> IF node.indirect > 0
                      THEN AsPtrBuff(s.disk.data[node.indirect])
                      ELSE [p \in PtrIdx |-> 0],
         brk |-> FALSE,
         ub |-> FALSE]

Located(L, be, buff) == [L |-> L, bitmap_entry |-> be, buff |-> buff]
Break(L) == [L |-> [L EXCEPT !.brk = TRUE], bitmap_entry |-> -1, buff |-> ZeroBlock]
Wild(L) == [L |-> [L EXCEPT !.ub = TRUE], bitmap_entry |-> -1, buff |-> ZeroBlock]

(* Lines 334-345: the block of a direct pointer, allocated when it is 0. *)
fwrite_direct(L) ==
    LET cb == L.current_block
        be == get_free_bitmap_address(L.fb)
    IN  IF L.node.direct[cb] > 0
        THEN Located(L, L.node.direct[cb] - DATA_BLOCKS_OFFSET,
                     L.data[L.node.direct[cb]])
        ELSE IF be = -1 THEN Break(L)
        ELSE Located([L EXCEPT !.fb[be] = 1,
                               !.node.direct[cb] = be + DATA_BLOCKS_OFFSET],
                     be, ZeroBlock)

(* Lines 347-358: the index block is allocated on first need. *)
fwrite_alloc_indirect(L) ==
    LET pbe == get_free_bitmap_address(L.fb)
    IN  IF L.node.indirect > 0 THEN L
        ELSE IF pbe = -1 THEN [L EXCEPT !.brk = TRUE]
        ELSE [L EXCEPT !.fb[pbe] = 1,
                       !.ptr_buff = [p \in PtrIdx |-> 0],
                       !.did_load_ptr_buff = 1,
                       !.node.indirect = pbe + DATA_BLOCKS_OFFSET]

(* Lines 360-376: the block of a slot of the index block. *)
fwrite_indirect(L0) ==
    LET L == fwrite_alloc_indirect(L0)
        pa == L.current_block - NUM_DIRECT_POINTERS
        be == get_free_bitmap_address(L.fb)
    IN  IF L.brk THEN Break(L)
        ELSE IF L.did_load_ptr_buff = 0 THEN Break(L)
        ELSE IF L.ptr_buff[pa] > 0
             THEN IF L.ptr_buff[pa] \in DataBlocks
                  THEN Located(L, L.ptr_buff[pa] - DATA_BLOCKS_OFFSET,
                               L.data[L.ptr_buff[pa]])
                  ELSE Wild(L)
        ELSE IF be = -1 THEN Break(L)
        ELSE Located([L EXCEPT !.fb[be] = 1,
                               !.ptr_buff[pa] = be + DATA_BLOCKS_OFFSET],
                     be, ZeroBlock)

(* Lines 379-395: merge the caller's bytes into the block, write it back. *)
fwrite_store(loc, buf) ==
    LET L == loc.L
        block_offset == L.rwptr % BLOCK_SIZE
        bytes_count == Min(BLOCK_SIZE - block_offset, L.bytes_to_write)
        buff == [c \in CellIdx |->
                   IF c >= block_offset /\ c < block_offset + bytes_count
                   THEN buf[L.bytes_written + (c - block_offset) + 1]
                   ELSE loc.buff[c]]
    IN  IF bytes_count > 0
        THEN [L EXCEPT !.data[loc.bitmap_entry + DATA_BLOCKS_OFFSET] = buff,
                       !.fb[loc.bitmap_entry] = 1,
                       !.rwptr_size_offset = L.rwptr_size_offset + bytes_count,
                       !.rwptr = L.rwptr + bytes_count,
                       !.bytes_to_write = L.bytes_to_write - bytes_count,
                       !.bytes_written = L.bytes_written + bytes_count,
                       !.did_write_to_disk = 1,
                       !.current_block = (L.rwptr + bytes_count) \div BLOCK_SIZE]
        ELSE [L EXCEPT !.did_write_to_disk = 0]

fwrite_step(L, buf) ==
    LET loc == IF L.current_block < NUM_DIRECT_POINTERS
               THEN fwrite_direct(L)
               ELSE fwrite_indirect(L)
    IN  IF loc.L.brk \/ loc.L.ub THEN loc.L ELSE fwrite_store(loc, buf)

RECURSIVE fwrite_loop(_, _)
fwrite_loop(L, buf) ==
    IF /\ ~L.brk
       /\ ~L.ub
       /\ L.did_write_to_disk = 1
       /\ L.bytes_to_write > 0
       /\ L.current_block < MAX_DATA_BLOCKS_PER_FILE - 1
    THEN fwrite_loop(fwrite_step(L, buf), buf)
    ELSE L

(* fwrite_flush with the metadata flushed only after a complete write      *)
(* (bytes_to_write = 0) instead of after any byte written (line 398).      *)
fwrite_flush_only_complete(s, fileID, length, L) ==
    LET f == s.fdt[fileID]
        node == IF L.rwptr_size_offset > 0
                THEN [L.node EXCEPT !.size = L.node.size + L.rwptr_size_offset]
                ELSE L.node
        ino == [s.inodes EXCEPT ![f.inode] = IF L.bytes_to_write = 0
                                             THEN node ELSE L.node]
        data == IF L.did_load_ptr_buff = 1
                THEN [L.data EXCEPT ![node.indirect] = AsBlock(L.ptr_buff)]
                ELSE L.data
        mem == [s EXCEPT !.inodes = ino,
                         !.free_blocks = L.fb,
                         !.fdt[fileID].rwptr = L.rwptr,
                         !.disk.data = L.data]
    IN  IF L.bytes_to_write = 0
        THEN Result([mem EXCEPT !.disk.data = data,
                                !.disk.inodes = ino,
                                !.disk.bitmap = L.fb],
                    L.bytes_written)
        ELSE Result(mem, L.bytes_written)

(* fwrite_flush with the size set to the cursor after every write, also    *)
(* when the write ends below the old size (line 400 without its test).     *)
fwrite_flush_size_is_rwptr(s, fileID, length, L) ==
    LET f == s.fdt[fileID]
        node == [L.node EXCEPT !.size = L.rwptr]
        ino == [s.inodes EXCEPT ![f.inode] = IF L.bytes_to_write # length
                                             THEN node ELSE L.node]
        data == IF L.did_load_ptr_buff = 1
                THEN [L.data EXCEPT ![node.indirect] = AsBlock(L.ptr_buff)]
                ELSE L.data
        mem == [s EXCEPT !.inodes = ino,
                         !.free_blocks = L.fb,
                         !.fdt[fileID].rwptr = L.rwptr,
                         !.disk.data = L.data]
    IN  IF L.bytes_to_write # length
        THEN Result([mem EXCEPT !.disk.data = data,
                                !.disk.inodes = ino,
                                !.disk.bitmap = L.fb],
                    L.bytes_written)
        ELSE Result(mem, L.bytes_written)

(* Lines 398-407: the metadata is flushed only when some byte was written. *)
fwrite_flush(s, fileID, length, L) ==
    LET f == s.fdt[fileID]
        node == IF L.rwptr_size_offset > 0
                THEN [L.node EXCEPT !.size = L.node.size + L.rwptr_size_offset]
                ELSE L.node
        ino == [s.inodes EXCEPT ![f.inode] = IF L.bytes_to_write # length
                                             THEN node ELSE L.node]
        data == IF L.did_load_ptr_buff = 1
                THEN [L.data EXCEPT ![node.indirect] = AsBlock(L.ptr_buff)]
                ELSE L.data
        mem == [s EXCEPT !.inodes = ino,
                         !.free_blocks = L.fb,
                         !.fdt[fileID].rwptr = L.rwptr,
                         !.disk.data = L.data]
    IN  IF L.bytes_to_write # length
        THEN Result([mem EXCEPT !.disk.data = data,
                                !.disk.inodes = ino,
                                !.disk.bitmap = L.fb],
                    L.bytes_written)
        ELSE Result(mem, L.bytes_written)

sfs_fwrite(s, fileID, buf, length) ==
    IF fileID \notin InodeIdx THEN Undefined(s)
    ELSE LET f == s.fdt[fileID]
         IN  IF \/ length <= 0
                \/ f.inode <= 0
                \/ f.rwptr < 0
                \/ f.rwptr > s.inodes[f.inode].size
                \/ f.rwptr >= MAX_DATA_BLOCKS_PER_FILE * BLOCK_SIZE
             THEN Result(s, 0)
             ELSE LET L == fwrite_loop(fwrite_locals(s, fileID, length), buf)
                  IN  IF L.ub THEN Undefined(s)
                      ELSE fwrite_flush(s, fileID, length, L)

(***************************************************************************)
(* sfs_fread                                                               *)
(***************************************************************************)
fread_locals(s, fileID, length) ==
    LET f == s.fdt[fileID]
        node == s.inodes[f.inode]
        rwptr_size_offset == node.size - f.rwptr
    IN  [rwptr |-> f.rwptr,
         bytes_read |-> 0,
         bytes_to_read |-> IF rwptr_size_offset < length
                           THEN rwptr_size_offset ELSE length,
         did_write_to_buf |-> 1,
         current_block |-> f.rwptr \div BLOCK_SIZE,
         did_load_ptr_buff |-> 0,
         ptr_buff |-> [p \in PtrIdx |-> 0],
         out |-> <<>>,
         ub |-> FALSE]

(* Lines 466-469: the index block is read from disk on first need. *)
fread_load(s, node, L) ==
    IF L.did_load_ptr_buff = 0 /\ node.indirect > 0
    THEN [L EXCEPT !.did_load_ptr_buff = 1,
                   !.ptr_buff = AsPtrBuff(s.disk.data[node.indirect])]
    ELSE L

(* Lines 478-494: copy the bytes of the block that lie in the range. *)
fread_copy(L, buff) ==
    LET block_offset == L.rwptr % BLOCK_SIZE
        bytes_count == Min(BLOCK_SIZE - block_offset, L.bytes_to_read)
    IN  IF bytes_count > 0
        THEN [L EXCEPT !.out = L.out \o [k \in 1 .. bytes_count |->
                                           buff[block_offset + k - 1]],
                       !.did_write_to_buf = 1,
                       !.bytes_read = L.bytes_read + bytes_count,
                       !.bytes_to_read = L.bytes_to_read - bytes_count,
                       !.rwptr = L.rwptr + bytes_count,
                       !.current_block = (L.rwptr + bytes_count) \div BLOCK_SIZE]
        ELSE [L EXCEPT !.did_write_to_buf = 0]

fread_step(s, node, L0) ==
    LET cb == L0.current_block
        L == IF cb < NUM_DIRECT_POINTERS THEN L0 ELSE fread_load(s, node, L0)
        pa == cb - NUM_DIRECT_POINTERS
    IN  IF cb < NUM_DIRECT_POINTERS
        THEN IF node.direct[cb] > 0
             THEN fread_copy(L, s.disk.data[node.direct[cb]])
             ELSE [L EXCEPT !.did_write_to_buf = 0]
        ELSE IF L.did_load_ptr_buff = 1 /\ L.ptr_buff[pa] > 0
             THEN IF L.ptr_buff[pa] \in DataBlocks
                  THEN fread_copy(L, s.disk.data[L.ptr_buff[pa]])
                  ELSE [L EXCEPT !.ub = TRUE]
             ELSE [L EXCEPT !.did_write_to_buf = 0]

RECURSIVE fread_loop(_, _, _)
fread_loop(s, node, L) ==
    IF /\ ~L.ub
       /\ L.did_write_to_buf = 1
       /\ L.bytes_to_read > 0
       /\ L.current_block < MAX_DATA_BLOCKS_PER_FILE - 1
    THEN fread_loop(s, node, fread_step(s, node, L))
    ELSE L

sfs_fread(s, fileID, length) ==
    IF fileID \notin InodeIdx THEN Undefined(s)
    ELSE LET f == s.fdt[fileID]
         IN  IF \/ length <= 0
                \/ f.inode <= 0
                \/ f.rwptr < 0
                \/ f.rwptr >= s.inodes[f.inode].size
             THEN Result(s, 0)
             ELSE LET L == fread_loop(s, s.inodes[f.inode],
                                      fread_locals(s, fileID, length))
                  IN  IF L.ub THEN Undefined(s)
                      ELSE [st |-> [s EXCEPT !.fdt[fileID].rwptr = L.rwptr],
                            ret |-> L.bytes_read, out |-> L.out, ub |-> FALSE]

(***************************************************************************)
(* sfs_remove                                                              *)
(***************************************************************************)
(* Lines 554-559: the first descriptor bound to the inode is closed. *)
remove_close(s, inode) ==
    LET open == {j \in FileInodeIdx : s.fdt[j].inode = inode}
    IN  IF open = {} THEN s
        ELSE sfs_fclose(s, CHOOSE j \in open : \A k \in open : j <= k).st

(* Lines 548-561: every directory entry whose names field equals file is   *)
(* cleared; inode is the number of the last one.                           *)
RECURSIVE remove_scan(_, _, _, _)
remove_scan(s, file, i, inode) ==
    IF i >= NUM_FILE_INODES THEN [st |-> s, inode |-> inode]
    ELSE IF s.root[i].names = file
         THEN remove_scan(
                  remove_close([s EXCEPT !.root[i] = [mode |-> 0, names |-> <<>>]],
                               i + 1),
                  file, i + 1, i + 1)
         ELSE remove_scan(s, file, i + 1, inode)

(* A release of the direct blocks that zeroes them on disk and clears the  *)
(* pointers but leaves their bitmap bytes at 1.                            *)
remove_direct_keep_bitmap(R, i) ==
    LET blks == {R.n.direct[k] : k \in {d \in DirectIdx : d >= i}} \ {0}
    IN  [R EXCEPT !.data = [b \in DataBlocks |->
                              IF b \in blks THEN ZeroBlock ELSE R.data[b]],
                  !.n.direct = [k \in DirectIdx |->
                                  IF k >= i THEN 0 ELSE R.n.direct[k]]]

(* The state of the release of the blocks of an inode (lines 565-592). *)
RECURSIVE remove_direct(_, _)
remove_direct(R, i) ==
    IF i >= NUM_DIRECT_POINTERS THEN R
    ELSE IF R.n.direct[i] > 0
         THEN remove_direct(
                  [R EXCEPT !.fb[R.n.direct[i] - DATA_BLOCKS_OFFSET] = 0,
                            !.data[R.n.direct[i]] = ZeroBlock,
                            !.n.direct[i] = 0],
                  i + 1)
         ELSE remove_direct(R, i + 1)

RECURSIVE remove_slots(_, _, _)
remove_slots(R, ptr_buff, i) ==
    IF i >= NUM_POINTERS_IN_INDIRECT - 1 \/ R.ub THEN R
    ELSE IF ptr_buff[i] > 0
         THEN IF ptr_buff[i] \in DataBlocks
              THEN remove_slots(
                       [R EXCEPT !.fb[ptr_buff[i] - DATA_BLOCKS_OFFSET] = 0,
                                 !.data[ptr_buff[i]] = ZeroBlock],
                       ptr_buff, i + 1)
              ELSE [R EXCEPT !.ub = TRUE]
         ELSE remove_slots(R, ptr_buff, i + 1)

(* A release that clears the pointer to the index block and leaves the     *)
(* index block itself as it is on disk.                                    *)
remove_indirect_keep_index(R) ==
    IF R.n.indirect > 0
    THEN LET ptr_buff == AsPtrBuff(R.data[R.n.indirect])
             R1 == remove_slots(R, ptr_buff, 0)
         IN  IF R1.ub THEN R1
             ELSE [R1 EXCEPT !.n.indirect = 0]
    ELSE R

(* Lines 579-592: the blocks of the slots are released and zeroed, the     *)
(* index block is zeroed and the pointer to it cleared.                    *)
remove_indirect(R) ==
    IF R.n.indirect > 0
    THEN LET ptr_buff == AsPtrBuff(R.data[R.n.indirect])
             R1 == remove_slots(R, ptr_buff, 0)
         IN  IF R1.ub THEN R1
             ELSE [R1 EXCEPT !.data[R.n.indirect] = ZeroBlock,
                             !.n.indirect = 0]
    ELSE R

sfs_remove(s0, file) ==
    LET sc == remove_scan(s0, file, 0, -1)
        s == sc.st
        inode == sc.inode
    IN  IF inode > 0 /\ s.inodes[inode].link_cnt = 1
        THEN LET R == remove_indirect(
                          remove_direct([n |-> s.inodes[inode],
                                         fb |-> s.free_blocks,
                                         data |-> s.disk.data,
                                         ub |-> FALSE], 0))
                 ino == [s.inodes EXCEPT ![inode] =
                           [R.n EXCEPT !.mode = 0, !.size = 0, !.link_cnt = 0]]
             IN  IF R.ub THEN Undefined(s0)
                 ELSE Result([s EXCEPT !.inodes = ino,
                                       !.free_blocks = R.fb,
                                       !.num_files = (s.num_files - 1) % UINT_MOD,
                                       !.disk.data = R.data,
                                       !.disk.inodes = ino,
                                       !.disk.root = s.root,
                                       !.disk.bitmap = R.fb],
                             inode)
        ELSE Result(s, inode)

(***************************************************************************)
(* The shell (src/1/stephen_lu_shell.c) before its first prompt: no child, *)
(* no background process recorded, every id of the array -1.  The command  *)
(* strings of the array are left out: no test of the shell reads them.     *)
(***************************************************************************)
MAX_BG_PROCESSES == 2

(* The process ids the kernel hands out; fork fails when all are taken. *)
MaxPid == 4
Pids == 1 .. MaxPid

BgIdx == 0 .. (MAX_BG_PROCESSES - 1)

ShellStart ==
    /\ processes = [i \in BgIdx |-> -1]
    /\ numBgProcesses = 0
    /\ active_pid = -1
    /\ pid = -1
    /\ bg = 0
    /\ pc = "getcmd"
    /\ running = {}
    /\ zombies = {}
    /\ started_bg = {}
    /\ sigchld = FALSE
    /\ handling = FALSE

(***************************************************************************)
(* The thread library (src/2/sut.c) after sut_init: both queues empty, no  *)
(* task, both kernel threads at the top of their loops with cancellation   *)
(* enabled, which is the state a new pthread starts in.  MAX_THREADS is    *)
(* scaled down to 2.                                                       *)
(***************************************************************************)
MAX_THREADS == 2

(* The descriptors sut_create can allocate, and the library calls a task   *)
(* makes before it calls sut_exit.                                         *)
MaxTasks == 2
MaxSteps == 2
Tasks == 1 .. MaxTasks
NULL == 0

Executors == {"c", "i"}
TaskPos == {"fn", "yield_swap", "open_swap_c", "open_io", "open_swap_i"}

SutStart ==
    /\ readyQ = <<>>
    /\ waitQ = <<>>
    /\ numthreads = 0
    /\ cur_c_thread = NULL
    /\ cur_i_thread = NULL
    /\ threadcontext = [t \in Tasks |-> "none"]
    /\ exec_pc = [k \in Executors |-> "loop"]
    /\ cancelstate = [k \in Executors |-> "enable"]
    /\ cancel_pending = [k \in Executors |-> FALSE]
    /\ main_pc = "run"
    /\ tdescs = {}
    /\ freed = {}
    /\ steps = [t \in Tasks |-> 0]
    /\ sut_ub = FALSE

(***************************************************************************)
(* The state machine: the process starts with zeroed globals and formats   *)
(* the disk; then any call with any argument, MaxCalls calls in all.  A    *)
(* call that leaves defined behaviour sets ub and the machine stops there. *)
(***************************************************************************)
Call(r) ==
    /\ ~ub
    /\ calls < MaxCalls
    /\ calls' = calls + 1
    /\ super' = r.st.super
    /\ inodes' = r.st.inodes
    /\ fdt' = r.st.fdt
    /\ root' = r.st.root
    /\ free_blocks' = r.st.free_blocks
    /\ num_files' = r.st.num_files
    /\ curr_file' = r.st.curr_file
    /\ disk' = r.st.disk
    /\ ub' = r.ub
    /\ UNCHANGED <<shell_vars, sut_vars>>

Init ==
    LET s == mksfs_fresh(ZeroState)
    IN  /\ super = s.super
        /\ inodes = s.inodes
        /\ fdt = s.fdt
        /\ root = s.root
        /\ free_blocks = s.free_blocks
        /\ num_files = s.num_files
        /\ curr_file = s.curr_file
        /\ disk = s.disk
        /\ ub = FALSE
        /\ calls = 0
        /\ ShellStart
        /\ SutStart

Mksfs == \E fresh \in {0, 1} : Call(mksfs(St, fresh))

GetNextFilename == Call(sfs_getnextfilename(St))

GetFileSize ==
    \E path \in Names :
        Call(Result(St, sfs_getfilesize(St, path)))

Fopen == \E name \in Names : Call(sfs_fopen(St, name))

Fclose == \E fileID \in FileIDs : Call(sfs_fclose(St, fileID))

Fwrite ==
    \E fileID \in FileIDs, length \in Lengths :
        \E tag \in (IF length > 0 THEN 1 .. MaxTag ELSE {1}) :
            Call(sfs_fwrite(St, fileID, Pattern(tag, length), length))

Fread ==
    \E fileID \in FileIDs, length \in Lengths :
        Call(sfs_fread(St, fileID, length))

Fseek ==
    \E fileID \in FileIDs, loc \in Locs :
        Call(sfs_fseek(St, fileID, loc))

Remove == \E file \in Names : Call(sfs_remove(St, file))

Next ==
    \/ Mksfs
    \/ GetNextFilename
    \/ GetFileSize
    \/ Fopen
    \/ Fclose
    \/ Fwrite
    \/ Fread
    \/ Fseek
    \/ Remove

Spec == Init /\ [][Next]_vars

(***************************************************************************)
(* Vocabulary of the properties.                                           *)
(***************************************************************************)
(* MAX_FILE_BYTES of the specification: the direct pointers plus the slots *)
(* of one index block, in bytes.                                           *)
MAX_FILE_BYTES == (NUM_DIRECT_POINTERS + (BLOCK_SIZE \div PTR_SIZE)) * BLOCK_SIZE

CeilDiv(a, b) == (a + b - 1) \div b

Allocated(s) == {i \in FileInodeIdx : s.inodes[i].link_cnt = 1}
ActiveNames(s) == {s.root[i].names : i \in {k \in DirIdx : s.root[k].mode = 1}}
RealNames == {n \in Names : Len(n) > 0 /\ Len(n) < MAX_FILENAME}
Buffers == {Pattern(tag, n) : tag \in 1 .. MaxTag, n \in 1 .. MaxLen}

Ones(fb) == Cardinality({b \in BitmapIdx : fb[b] = 1})
FreeSlots(fb) == Cardinality({b \in BitmapIdx : fb[b] = 0})

(* The slots of the index block of inode i, as stored on disk. *)
SlotsOf(s, i) ==
    IF s.inodes[i].indirect \in DataBlocks
    THEN AsPtrBuff(s.disk.data[s.inodes[i].indirect])
    ELSE [p \in PtrIdx |-> 0]

(* The block of file-relative block index b of inode i, 0 when unmapped. *)
BlockOf(s, i, b) ==
    IF b < NUM_DIRECT_POINTERS THEN s.inodes[i].direct[b]
    ELSE SlotsOf(s, i)[b - NUM_DIRECT_POINTERS]

FileBlockIdx == 0 .. (NUM_DIRECT_POINTERS + (BLOCK_SIZE \div PTR_SIZE) - 1)
DataBlockCount(s, i) == Cardinality({b \in FileBlockIdx : BlockOf(s, i, b) # 0})

(* How many pointers of allocated inodes refer to block blk. *)
RefCount(s, blk) ==
    Cardinality({<<i, b>> \in Allocated(s) \X FileBlockIdx : BlockOf(s, i, b) = blk})
    + Cardinality({i \in Allocated(s) : s.inodes[i].indirect = blk})

(* The bytes a reader gets from offset 0 of the file of inode i; the       *)
(* marker <<-1>> when the read follows a pointer out of the data region.   *)
FileContents(s, i) ==
    LET L == fread_loop(s, s.inodes[i],
                        [rwptr |-> 0, bytes_read |-> 0,
                         bytes_to_read |-> s.inodes[i].size,
                         did_write_to_buf |-> 1, current_block |-> 0,
                         did_load_ptr_buff |-> 0,
                         ptr_buff |-> [p \in PtrIdx |-> 0],
                         out |-> <<>>, ub |-> FALSE])
    IN  IF L.ub THEN <<-1>> ELSE L.out

(***************************************************************************)
(* C1.  Round trip: open(new name f); write(fd, B, |B|); close(fd);        *)
(* fd2 = open(f); seek(fd2, 0); read(fd2, out, |B|) on a file system with  *)
(* a free inode and enough free blocks for B has write and read return |B| *)
(* and out = B, for every B with 1 <= |B| <= MAX_FILE_BYTES.               *)
(***************************************************************************)
BlocksNeeded(n) ==
    CeilDiv(n, BLOCK_SIZE)
    + (IF CeilDiv(n, BLOCK_SIZE) > NUM_DIRECT_POINTERS THEN 1 ELSE 0)

RoundTripOf(s, f, B) ==
    LET o1 == sfs_fopen(s, f)
        w == sfs_fwrite(o1.st, o1.ret, B, Len(B))
        c == sfs_fclose(w.st, o1.ret)
        o2 == sfs_fopen(c.st, f)
        k == sfs_fseek(o2.st, o2.ret, 0)
        r == sfs_fread(k.st, o2.ret, Len(B))
    IN  [opened |-> o1.ret, written |-> w.ret, reopened |-> o2.ret,
         read |-> r.ret, out |-> r.out, ub |-> w.ub \/ r.ub]

C1_RoundTrip ==
    \A f \in RealNames, B \in Buffers :
        (/\ \A i \in DirIdx : root[i].names # f
         /\ Len(B) <= MAX_FILE_BYTES
         /\ FreeSlots(free_blocks) >= BlocksNeeded(Len(B))
         /\ sfs_fopen(St, f).ret > 0)
        => LET t == RoundTripOf(St, f, B)
           IN  ~t.ub /\ t.written = Len(B) /\ t.read = Len(B) /\ t.out = B

(***************************************************************************)
(* C2.  Persistence: mksfs(0) after any sequence of calls leaves every     *)
(* directory entry (name and mode), every inode size and the readable      *)
(* contents of every file as they were.                                    *)
(***************************************************************************)
C2_Persistence ==
    LET m == mksfs(St, 0).st
    IN  /\ m.root = root
        /\ \A i \in FileInodeIdx : m.inodes[i].size = inodes[i].size
        /\ \A i \in Allocated(St) : FileContents(m, i) = FileContents(St, i)

(***************************************************************************)
(* C3.  Bitmap and references: a bitmap byte is 1 iff exactly one pointer  *)
(* of an allocated inode (direct, indirect, or a slot of its index block)  *)
(* refers to the block; no block is referred to twice and no byte stays 1  *)
(* once the owner is removed.                                              *)
(***************************************************************************)
C3_BitmapMatchesReferences ==
    \A b \in BitmapIdx :
        /\ RefCount(St, b + DATA_BLOCKS_OFFSET) <= 1
        /\ (free_blocks[b] = 1) <=> (RefCount(St, b + DATA_BLOCKS_OFFSET) = 1)

(***************************************************************************)
(* C4.  Remove frees space: remove(f) of an existing file lowers the       *)
(* number of 1-bytes of the bitmap by the number of data blocks of f plus  *)
(* 1 if f has an index block, whose own bitmap byte is cleared.            *)
(***************************************************************************)
C4_RemoveFreesSpace ==
    \A i \in FileInodeIdx :
        (/\ inodes[i].link_cnt = 1
         /\ root[i - 1].mode = 1
         /\ root[i - 1].names \in RealNames)
        => LET r == sfs_remove(St, root[i - 1].names)
               ind == inodes[i].indirect
           IN  /\ Ones(free_blocks) - Ones(r.st.free_blocks)
                    = DataBlockCount(St, i) + (IF ind > 0 THEN 1 ELSE 0)
               /\ ind > 0 => r.st.free_blocks[ind - DATA_BLOCKS_OFFSET] = 0

(***************************************************************************)
(* C5.  Directory and inode stay bound: for every file inode i,            *)
(* link_cnt = 1 iff the mode of entry i-1 is 1 iff its name is non-empty.  *)
(***************************************************************************)
C5_DirectoryInodeBinding ==
    \A i \in FileInodeIdx :
        /\ (inodes[i].link_cnt = 1) <=> (root[i - 1].mode = 1)
        /\ (root[i - 1].mode = 1) <=> (root[i - 1].names # <<>>)

(***************************************************************************)
(* C6.  Names are unique: no two directory entries with mode 1 hold the    *)
(* same name.                                                              *)
(***************************************************************************)
C6_NamesUnique ==
    \A i, k \in DirIdx :
        (i # k /\ root[i].mode = 1 /\ root[k].mode = 1)
        => root[i].names # root[k].names

(***************************************************************************)
(* C7.  Size and block count: every allocated inode has                    *)
(* 0 <= size <= MAX_FILE_BYTES and refers to exactly ceil(size/BLOCK_SIZE) *)
(* data blocks, at the file-relative block indices below that number.      *)
(***************************************************************************)
C7_SizeMatchesBlocks ==
    \A i \in Allocated(St) :
        /\ inodes[i].size >= 0
        /\ inodes[i].size <= MAX_FILE_BYTES
        /\ \A b \in FileBlockIdx :
              (BlockOf(St, i, b) # 0) <=> (b < CeilDiv(inodes[i].size, BLOCK_SIZE))

(***************************************************************************)
(* C8.  Descriptor offset: every descriptor in use, fd >= 1, has           *)
(* 0 <= rwptr <= size of its inode.                                        *)
(***************************************************************************)
C8_RwptrWithinSize ==
    \A j \in FileInodeIdx :
        fdt[j].inode # -1
        => fdt[j].rwptr >= 0 /\ fdt[j].rwptr <= inodes[fdt[j].inode].size

(***************************************************************************)
(* C9.  One descriptor per file: at most one descriptor in use refers to   *)
(* any inode, and open(name) of a file that has a descriptor returns -1    *)
(* and changes neither the descriptor table nor any other table or the     *)
(* disk.                                                                   *)
(***************************************************************************)
OpenOn(s, i) == {j \in InodeIdx : s.fdt[j].inode = i}

(* The directory entry open(name) resolves name to, -1 when there is none. *)
EntryOf(s, name) ==
    LET match == {i \in DirIdx : s.root[i].names = name}
    IN  IF match = {} THEN -1 ELSE CHOOSE i \in match : \A k \in match : i <= k

FreshInode == [mode |-> 1, link_cnt |-> 1, size |-> 0,
               direct |-> [d \in DirectIdx |-> 0], indirect |-> 0]

C10_CreateOnOpen ==
    \A name \in Names :
        (/\ Len(name) < MAX_FILENAME
         /\ name \notin ActiveNames(St)
         /\ \E i \in FileInodeIdx : inodes[i].link_cnt = 0)
        => LET r == sfs_fopen(St, name)
               free == {i \in FileInodeIdx : inodes[i].link_cnt = 0}
               i == CHOOSE i \in free : \A k \in free : i <= k
               j == FirstFreeFd(fdt)
           IN  /\ r.ret = j
               /\ j >= 1
               /\ r.st.root[i - 1] = [mode |-> 1, names |-> name]
               /\ r.st.inodes[i] = FreshInode
               /\ r.st.fdt[j] = [inode |-> i, rwptr |-> 0]
               /\ r.st.disk.inodes = r.st.inodes
               /\ r.st.disk.root = r.st.root

(***************************************************************************)
(* C11.  Open failure leaves the state unchanged: open(name) returns -1    *)
(* and modifies no in-memory table and no disk block when                  *)
(* strlen(name) >= MAX_FILENAME, or when name matches no active entry and  *)
(* every file inode is allocated.                                          *)
(***************************************************************************)
C11_OpenFailureNoChange ==
    \A name \in Names :
        (\/ Len(name) >= MAX_FILENAME
         \/ /\ name \notin ActiveNames(St)
            /\ \A i \in FileInodeIdx : inodes[i].link_cnt = 1)
        => LET r == sfs_fopen(St, name)
           IN  r.ret = -1 /\ r.st = St

(***************************************************************************)
(* C12.  Append on reopen: open(name) of an existing file that has no      *)
(* descriptor returns a descriptor bound to the file whose rwptr is the    *)
(* file's size; and on a freshly formatted file system fd = open(a);       *)
(* write(fd, "xxx", 3); close(fd); fd = open(a); write(fd, "y", 1);        *)
(* close(fd) leaves a with the contents "xxxy" and the size 4.             *)
(***************************************************************************)
LegalNames == {n \in Names : Len(n) < MAX_FILENAME}

AppendOf(s, a, B1, B2) ==
    LET o1 == sfs_fopen(s, a)
        w1 == sfs_fwrite(o1.st, o1.ret, B1, Len(B1))
        c1 == sfs_fclose(w1.st, o1.ret)
        o2 == sfs_fopen(c1.st, a)
        w2 == sfs_fwrite(o2.st, o2.ret, B2, Len(B2))
        c2 == sfs_fclose(w2.st, o2.ret)
        i == o1.st.fdt[o1.ret].inode
    IN  [ub |-> w1.ub \/ w2.ub,
         size |-> c2.st.inodes[i].size,
         contents |-> FileContents(c2.st, i)]

C12_AppendOnReopen ==
    /\ \A i \in DirIdx :
          (/\ root[i].mode = 1
           /\ Len(root[i].names) < MAX_FILENAME
           /\ EntryOf(St, root[i].names) = i
           /\ OpenOn(St, i + 1) = {})
          => LET o == sfs_fopen(St, root[i].names)
             IN  /\ o.ret >= 1
                 /\ o.st.fdt[o.ret] = [inode |-> i + 1,
                                       rwptr |-> inodes[i + 1].size]
    /\ \A a \in LegalNames :
          LET t == AppendOf(mksfs_fresh(ZeroState), a, <<1, 1, 1>>, <<2>>)
          IN  ~t.ub /\ t.size = 4 /\ t.contents = <<1, 1, 1, 2>>

(***************************************************************************)
(* C13.  Read after remount without seek.  As stated: for a file a that    *)
(* was written (n > 0 bytes) and closed, after mount(fresh = false);       *)
(* fd = open(a), an immediately following read(fd, buf, n) returns the n   *)
(* bytes of a in buf.                                                      *)
(***************************************************************************)
(* mksfs(0); fd = open(a); read(fd, buf, n); seek(fd, 0); read(fd, buf, n) *)
RemountRead(s, a, n) ==
    LET m == mksfs(s, 0)
        o == sfs_fopen(m.st, a)
        r == sfs_fread(o.st, o.ret, n)
        k == sfs_fseek(r.st, o.ret, 0)
        r2 == sfs_fread(k.st, o.ret, n)
    IN  [fd |-> o.ret,
         opened_at |-> o.st.fdt[o.ret].rwptr,
         read |-> r.ret, out |-> r.out,
         rwptr |-> r.st.fdt[o.ret].rwptr,
         seek |-> k.ret,
         read2 |-> r2.ret, out2 |-> r2.out,
         ub |-> r.ub \/ r2.ub]

(* The directory entries of the files the scenario is about: a real name,  *)
(* some bytes written, no descriptor open.                                 *)
ClosedFiles ==
    {i \in DirIdx : /\ root[i].mode = 1
                    /\ root[i].names \in RealNames
                    /\ OpenOn(St, i + 1) = {}
                    /\ inodes[i + 1].size > 0}

C13_ReadAfterRemount ==
    \A i \in ClosedFiles :
        LET t == RemountRead(St, root[i].names, inodes[i + 1].size)
        IN  t.read = inodes[i + 1].size /\ t.out = FileContents(St, i + 1)

(* C13, as the code behaves: the reopened descriptor stands at the end of  *)
(* the file, so the read without a seek returns 0, puts nothing in buf and *)
(* leaves rwptr where it was; seek(fd, 0) then succeeds and the read after *)
(* it returns the n bytes the file held before the remount.                *)
C13_ReadAfterRemountNeedsSeek ==
    \A i \in ClosedFiles :
        LET t == RemountRead(St, root[i].names, inodes[i + 1].size)
        IN  /\ t.fd >= 1
            /\ t.opened_at = inodes[i + 1].size
            /\ t.read = 0 /\ t.out = <<>>
            /\ t.rwptr = inodes[i + 1].size
            /\ t.seek = 0
            /\ ~t.ub
            /\ t.read2 = inodes[i + 1].size
            /\ t.out2 = FileContents(St, i + 1)

(* A file of MaxLen bytes, closed, in a state just loaded from the disk:   *)
(* reopened, its descriptor stands at MaxLen and the read returns 0.       *)
C13_Witness ==
    /\ ~ub
    /\ \A j \in FileInodeIdx : fdt[j].inode = -1
    /\ disk.inodes = inodes /\ disk.root = root /\ disk.bitmap = free_blocks
    /\ \E i \in ClosedFiles :
          /\ inodes[i + 1].size = MaxLen
          /\ LET o == sfs_fopen(St, root[i].names)
             IN  /\ o.ret >= 1
                 /\ o.st.fdt[o.ret].rwptr = MaxLen
                 /\ sfs_fread(o.st, o.ret, MaxLen).ret = 0

(***************************************************************************)
(* C14.  Idempotent close: close(fd) on a descriptor in use,               *)
(* 0 < fd < NUM_INODES, returns 0 and frees the slot (inode = -1,          *)
(* rwptr = 0) and nothing else; a close(fd) repeated at once returns -1;   *)
(* close with fd <= 0, fd >= NUM_INODES or a free slot returns -1 and      *)
(* changes nothing.                                                        *)
(***************************************************************************)
InUse(s, fd) == fd > 0 /\ fd < NUM_INODES /\ s.fdt[fd].inode # -1

C14_IdempotentClose ==
    \A fd \in FileIDs :
        LET c == sfs_fclose(St, fd)
            c2 == sfs_fclose(c.st, fd)
        IN  IF InUse(St, fd)
            THEN /\ c.ret = 0
                 /\ c.st = [St EXCEPT !.fdt[fd] = [inode |-> -1, rwptr |-> 0]]
                 /\ c2.ret = -1
                 /\ c2.st = c.st
            ELSE c.ret = -1 /\ c.st = St

(* Descriptor 1 was closed (slot free, rwptr 0) while descriptor 2 is      *)
(* still in use at a non-zero offset: a close of 1 is the repeated close,  *)
(* a close of 2 the first one.                                             *)
C14_Witness ==
    /\ ~ub
    /\ fdt[1] = [inode |-> -1, rwptr |-> 0]
    /\ InUse(St, 2)
    /\ fdt[2].rwptr > 0
    /\ sfs_fclose(St, 1).ret = -1
    /\ sfs_fclose(St, 2).ret = 0
    /\ sfs_fclose(St, 2).st.fdt[2] = [inode |-> -1, rwptr |-> 0]

(***************************************************************************)
(* C15.  No seek past the end of the file: seek(fd, loc) returns -1 and    *)
(* changes nothing when loc < 0, loc > size of the inode, fd is outside    *)
(* (0, NUM_INODES) or the descriptor is not in use; for a descriptor in    *)
(* use and 0 <= loc <= size, loc below MAX_FILE_BYTES, it returns 0 and    *)
(* sets rwptr to loc and nothing else.                                     *)
(***************************************************************************)
SizeOf(s, fd) == s.inodes[s.fdt[fd].inode].size

C16_SeekBelowMaxFileBytes ==
    \A fd \in FileIDs, loc \in Locs :
        loc >= MAX_FILE_BYTES => sfs_fseek(St, fd, loc).ret = -1

(***************************************************************************)
(* C17.  Read result: for a descriptor in use with rwptr < size and        *)
(* length > 0, read(fd, buf, length) returns n = min(length, size - rwptr), *)
(* puts the bytes of the file at the offsets rwptr .. rwptr + n - 1 in     *)
(* buf, in order, across direct and indirect blocks, and advances rwptr by *)
(* n; with length <= 0, a descriptor not in use or rwptr >= size it        *)
(* returns 0 and leaves rwptr unchanged.  Nothing else changes.            *)
(***************************************************************************)
(* The byte of inode i at offset off: the cell of the block the block map  *)
(* gives for off; -1 where the map has no block.                           *)
ByteAt(s, i, off) ==
    LET blk == BlockOf(s, i, off \div BLOCK_SIZE)
    IN  IF blk \in DataBlocks THEN s.disk.data[blk][off % BLOCK_SIZE] ELSE -1

C17_ReadResult ==
    \A fd \in InodeIdx, length \in Lengths :
        LET r == sfs_fread(St, fd, length)
            i == fdt[fd].inode
            rw == fdt[fd].rwptr
        IN  IF length > 0 /\ i >= 1 /\ rw >= 0 /\ rw < inodes[i].size
            THEN LET n == Min(length, inodes[i].size - rw)
                 IN  /\ ~r.ub
                     /\ r.ret = n
                     /\ r.out = [k \in 1 .. n |-> ByteAt(St, i, rw + k - 1)]
                     /\ r.st = [St EXCEPT !.fdt[fd].rwptr = rw + n]
            ELSE r.ret = 0 /\ r.st = St /\ r.out = <<>>

(***************************************************************************)
(* C18.  Write size and offset: a write that stores n > 0 bytes from the   *)
(* offset r, r <= old size, returns n, advances rwptr to r + n and sets    *)
(* the size of the inode to max(old size, r + n); a write that lies        *)
(* entirely inside the existing file leaves the size unchanged and         *)
(* allocates no block.                                                     *)
(***************************************************************************)
Max(a, b) == IF a >= b THEN a ELSE b

C18_WriteSizeOffset ==
    \A fd \in InodeIdx, B \in Buffers :
        LET w == sfs_fwrite(St, fd, B, Len(B))
            i == fdt[fd].inode
            r == fdt[fd].rwptr
        IN  (i >= 1 /\ r >= 0 /\ r <= inodes[i].size /\ ~w.ub /\ w.ret > 0)
            => /\ w.st.fdt[fd].rwptr = r + w.ret
               /\ w.st.inodes[i].size = Max(inodes[i].size, r + w.ret)
               /\ (r + Len(B) <= inodes[i].size)
                  => /\ w.ret = Len(B)
                     /\ w.st.inodes[i].size = inodes[i].size
                     /\ w.st.free_blocks = free_blocks
                     /\ w.st.inodes[i].direct = inodes[i].direct
                     /\ w.st.inodes[i].indirect = inodes[i].indirect
                     /\ SlotsOf(w.st, i) = SlotsOf(St, i)

(***************************************************************************)
(* C19.  Read-modify-write preservation: a write of n bytes at the offset  *)
(* r changes only the bytes of the file at the offsets r .. r + n - 1;     *)
(* every other byte of that file below the old size (the bytes of a        *)
(* trailing partial block before r, the bytes after r + n - 1 of an        *)
(* overwritten block) and every byte of every other file keep their        *)
(* values.                                                                 *)
(***************************************************************************)
C19_WritePreservesOtherBytes ==
    \A fd \in InodeIdx, B \in Buffers :
        LET w == sfs_fwrite(St, fd, B, Len(B))
            i == fdt[fd].inode
            r == fdt[fd].rwptr
        IN  (i >= 1 /\ ~w.ub /\ w.ret > 0)
            => \A k \in Allocated(St) :
                  \A off \in 0 .. (inodes[k].size - 1) :
                      (k # i \/ off < r \/ off >= r + w.ret)
                      => ByteAt(w.st, k, off) = ByteAt(St, k, off)

(***************************************************************************)
(* C20.  Short write on exhaustion: when the bitmap has no free slot for a *)
(* block the write needs, the write stops and returns the number of bytes  *)
(* stored so far (possibly 0, always < length); when that number is > 0    *)
(* the size, the pointers of the inode, the index block and the bitmap     *)
(* that reflect exactly those bytes are on disk, and the bytes written are *)
(* readable afterwards.                                                    *)
(***************************************************************************)
(* What the block map and the bitmap of s allow a write of n bytes at the  *)
(* offset r of inode i to store: the walk over the file-relative blocks    *)
(* from b on, with free slots left; a block without a mapping takes one    *)
(* slot, and one more when it is the first to need the index block.        *)
RECURSIVE Storable(_, _, _, _, _, _, _)
Storable(s, i, r, n, b, free, has_index) ==
    LET need == IF BlockOf(s, i, b) # 0 THEN 0
                ELSE IF b >= NUM_DIRECT_POINTERS /\ ~has_index THEN 2 ELSE 1
    IN  IF b * BLOCK_SIZE >= r + n
        THEN [stored |-> n, exhausted |-> FALSE]
        ELSE IF b \notin FileBlockIdx
        THEN [stored |-> b * BLOCK_SIZE - r, exhausted |-> FALSE]
        ELSE IF need > free
        THEN [stored |-> Max(0, b * BLOCK_SIZE - r), exhausted |-> TRUE]
        ELSE Storable(s, i, r, n, b + 1, free - need,
                      has_index \/ b >= NUM_DIRECT_POINTERS)

LowestFree(fb, k) ==
    {b \in BitmapIdx :
        /\ fb[b] = 0
        /\ Cardinality({c \in BitmapIdx : c < b /\ fb[c] = 0}) < k}

C21_FreshFileAllocation ==
    \A f \in RealNames, B \in Buffers :
        LET o == sfs_fopen(St, f)
            w == sfs_fwrite(o.st, o.ret, B, Len(B))
            i == o.st.fdt[o.ret].inode
            nblk == CeilDiv(Len(B), BLOCK_SIZE)
        IN  (/\ EntryOf(St, f) = -1
             /\ o.ret >= 1
             /\ FreeSlots(free_blocks) >= BlocksNeeded(Len(B)))
            => /\ ~w.ub
               /\ w.ret = Len(B)
               /\ DataBlockCount(w.st, i) = nblk
               /\ (w.st.inodes[i].indirect # 0) <=> (nblk > NUM_DIRECT_POINTERS)
               /\ Ones(w.st.free_blocks) - Ones(free_blocks) = BlocksNeeded(Len(B))
               /\ {b \in BitmapIdx : w.st.free_blocks[b] = 1 /\ free_blocks[b] = 0}
                     = LowestFree(free_blocks, BlocksNeeded(Len(B)))

(***************************************************************************)
(* C22.  Remove effect: remove(name) of an existing file returns its inode *)
(* index i, leaves no descriptor bound to i, clears entry i-1 (mode 0,     *)
(* name zeroed), sets inode i to link_cnt 0, mode 0, size 0 with every     *)
(* direct pointer and the indirect pointer 0, leaves every block the file  *)
(* owned (data blocks and index block) zero on disk, and the inode table,  *)
(* the directory table and the bitmap on disk equal to those in memory.    *)
(***************************************************************************)
ZeroInode == [mode |-> 0, link_cnt |-> 0, size |-> 0,
              direct |-> [k \in DirectIdx |-> 0], indirect |-> 0]

(* The blocks inode i refers to: its data blocks and its index block. *)
OwnedBlocks(s, i) ==
    ({BlockOf(s, i, b) : b \in FileBlockIdx} \cup {s.inodes[i].indirect}) \ {0}

C23_RemoveMiss ==
    \A name \in Names :
        name \notin ActiveNames(St)
        => LET r == sfs_remove(St, name)
           IN  /\ ~r.ub
               /\ r.ret = -1
               /\ r.st = St

(***************************************************************************)
(* C24.  Size query: file_size(path) is inode[i+1].size when the active    *)
(* directory entry i has the name path, and -1 for every path, the empty   *)
(* string included, that matches no active entry; the size returned is the *)
(* number of bytes a read from offset 0 delivers.                          *)
(***************************************************************************)
C24_SizeQuery ==
    \A path \in Names :
        LET sz == sfs_getfilesize(St, path)
        IN  /\ \A i \in DirIdx :
                   (root[i].mode = 1 /\ root[i].names = path)
                   => /\ sz = inodes[i + 1].size
                      /\ FileContents(St, i + 1) # <<-1>>
                      /\ Len(FileContents(St, i + 1)) = sz
            /\ path \notin ActiveNames(St) => sz = -1

(***************************************************************************)
(* C25.  Directory enumeration cycle: with the cursor at 0 and k active    *)
(* files and no other call in between, k + 1 consecutive next_filename     *)
(* calls return 1 exactly k times, giving every active name once in        *)
(* ascending directory-index order, then return 0 with the cursor back at  *)
(* 0, so that the next cycle gives the same sequence; mount, fresh or not, *)
(* resets the cursor.                                                      *)
(***************************************************************************)
(* The results of n consecutive calls: the return values and names, and    *)
(* the state after the last call.                                          *)
RECURSIVE Enumerate(_, _)
Enumerate(s, n) ==
    IF n = 0 THEN [st |-> s, rets |-> <<>>, names |-> <<>>]
    ELSE LET r == sfs_getnextfilename(s)
             e == Enumerate(r.st, n - 1)
         IN  [st |-> e.st,
              rets |-> <<r.ret>> \o e.rets,
              names |-> (IF r.ret = 1 THEN <<r.out>> ELSE <<>>) \o e.names]

ActiveEntries(s) == {i \in DirIdx : s.root[i].mode = 1}

(* The names of the active entries in ascending directory-index order. *)
RECURSIVE NamesFrom(_, _)
NamesFrom(s, i) ==
    IF i >= NUM_FILE_INODES THEN <<>>
    ELSE (IF s.root[i].mode = 1 THEN <<s.root[i].names>> ELSE <<>>)
         \o NamesFrom(s, i + 1)

C25_EnumerationCycle ==
    /\ curr_file = 0
       => LET k == Cardinality(ActiveEntries(St))
              e == Enumerate(St, k + 1)
              e2 == Enumerate(e.st, k + 1)
          IN  /\ e.rets = [j \in 1 .. (k + 1) |-> IF j <= k THEN 1 ELSE 0]
              /\ e.names = NamesFrom(St, 0)
              /\ e.st = St
              /\ e2.rets = e.rets
              /\ e2.names = e.names
    /\ \A fresh \in {0, 1} : mksfs(St, fresh).st.curr_file = 0

(***************************************************************************)
(* C26.  Fresh mount resets everything: after mount(fresh = true) from any *)
(* state, every file inode has link_cnt 0, size 0 and every pointer 0,     *)
(* every directory entry is empty, the bitmap is all 0, inode 0 has        *)
(* link_cnt 1, descriptor 0 is bound to inode 0 and every other descriptor *)
(* is free, and the tables on disk equal the tables in memory; a file      *)
(* created afterwards refers to no block it did not allocate.              *)
(***************************************************************************)
C26_FreshMountResets ==
    LET m == mksfs(St, 1).st
    IN  /\ \A i \in FileInodeIdx :
               /\ m.inodes[i].link_cnt = 0
               /\ m.inodes[i].size = 0
               /\ \A k \in DirectIdx : m.inodes[i].direct[k] = 0
               /\ m.inodes[i].indirect = 0
        /\ \A i \in DirIdx : m.root[i] = [mode |-> 0, names |-> <<>>]
        /\ \A b \in BitmapIdx : m.free_blocks[b] = 0
        /\ m.inodes[0].link_cnt = 1
        /\ m.fdt[0].inode = 0
        /\ \A j \in FileInodeIdx : m.fdt[j].inode = -1
        /\ m.disk.inodes = m.inodes
        /\ m.disk.root = m.root
        /\ m.disk.bitmap = m.free_blocks
        /\ \A f \in RealNames, B \in Buffers :
               LET o == sfs_fopen(m, f)
                   w == sfs_fwrite(o.st, o.ret, B, Len(B))
                   i == o.st.fdt[o.ret].inode
               IN  /\ o.ret >= 1
                   /\ OwnedBlocks(o.st, i) = {}
                   /\ ~w.ub
                   /\ OwnedBlocks(w.st, i)
                        = {b + DATA_BLOCKS_OFFSET :
                             b \in {c \in BitmapIdx : w.st.free_blocks[c] = 1}}
                   /\ Cardinality(OwnedBlocks(w.st, i))
                        = DataBlockCount(w.st, i)
                          + (IF w.st.inodes[i].indirect # 0 THEN 1 ELSE 0)

(***************************************************************************)
(* C27.  Descriptor 0 is reserved: in every state after mount descriptor 0 *)
(* is bound to inode 0; open never returns 0 (a successful result lies in  *)
(* 1 .. NUM_INODES - 1); close(0) and seek(0, loc) return -1, read and     *)
(* write on descriptor 0 return 0, and none of them changes any state.     *)
(***************************************************************************)
C27_DescriptorZeroReserved ==
    /\ fdt[0].inode = 0
    /\ \A name \in Names :
           sfs_fopen(St, name).ret \in ({-1} \cup (1 .. (NUM_INODES - 1)))
    /\ sfs_fclose(St, 0) = Result(St, -1)
    /\ \A loc \in Locs : sfs_fseek(St, 0, loc) = Result(St, -1)
    /\ \A length \in Lengths : sfs_fread(St, 0, length) = Result(St, 0)
    /\ \A B \in Buffers : sfs_fwrite(St, 0, B, Len(B)) = Result(St, 0)

(* Both file descriptors are in use on written files and the root's        *)
(* descriptor has been left alone by the calls made on it.                 *)
C27_Witness ==
    /\ ~ub
    /\ calls >= 3
    /\ fdt[0] = [inode |-> 0, rwptr |-> 0]
    /\ \A j \in FileInodeIdx : InUse(St, j)
    /\ \E j \in FileInodeIdx : SizeOf(St, j) > 0
    /\ sfs_fclose(St, 0).ret = -1
    /\ sfs_fwrite(St, 0, <<1>>, 1).ret = 0

(***************************************************************************)
(* C28.  Invalid handle on read/write: read(fd, ...) and write(fd, ...)    *)
(* return 0 and change no state for every fd that is negative, at least    *)
(* NUM_INODES or a free descriptor slot, and no slot of the descriptor     *)
(* table outside 0 .. NUM_INODES - 1 is accessed.                          *)
(***************************************************************************)
InvalidHandle(s, fd) ==
    \/ fd < 0
    \/ fd >= NUM_INODES
    \/ s.fdt[fd].inode = -1

C28_InvalidHandle ==
    \A fd \in FileIDs :
        InvalidHandle(St, fd)
        => /\ \A length \in Lengths : sfs_fread(St, fd, length) = Result(St, 0)
           /\ \A B \in Buffers : sfs_fwrite(St, fd, B, Len(B)) = Result(St, 0)

(***************************************************************************)
(* C29.  Remove-reclaims scenario: after creating file "a" and writing     *)
(* 10000 bytes to it (BLOCK_SIZE = 1024, NUM_DIRECT_POINTERS = 12),        *)
(* remove("a") lowers the number of 1-bytes of the bitmap by 11, the data  *)
(* blocks plus one for an index block.  At the scale of the model the      *)
(* 10000 bytes are a length n that the direct pointers cover, as           *)
(* 10000 <= 12 * 1024, and 11 is ceil(n / BLOCK_SIZE) + 1.                 *)
(***************************************************************************)
(* create a, write B, remove a, on the state s; the fall of the number of  *)
(* 1-bytes of the bitmap over the remove.                                  *)
RemoveReclaims(s, a, B) ==
    LET o == sfs_fopen(s, a)
        w == sfs_fwrite(o.st, o.ret, B, Len(B))
        r == sfs_remove(w.st, a)
    IN  [created |-> EntryOf(s, a) = -1 /\ o.ret >= 1,
         clean |-> o.ret >= 1
                   /\ o.st.inodes[o.st.fdt[o.ret].inode] = FreshInode,
         written |-> w.ret,
         removed |-> r.ret,
         ub |-> w.ub \/ r.ub,
         fall |-> Ones(w.st.free_blocks) - Ones(r.st.free_blocks)]

(* The lengths the direct pointers cover, as 10000 is for 12 of 1024. *)
DirectLengths == 1 .. (NUM_DIRECT_POINTERS * BLOCK_SIZE)

remove_process(procs, n, p) ==
    LET hit == {i \in BgIdx : i < n /\ procs[i] = p}
    IN  IF hit = {} THEN [processes |-> procs, found |-> 0]
        ELSE LET k == CHOOSE i \in hit : \A j \in hit : i <= j
             IN  [processes |-> [i \in BgIdx |->
                                   IF i >= k /\ i < n - 1 THEN procs[i + 1]
                                   ELSE procs[i]],
                  found |-> p]

Kernel == <<running, zombies, started_bg, sigchld>>
Tracking == <<processes, numBgProcesses>>
Locals == <<pid, bg>>

AtPrompt == pc = "getcmd" /\ ~handling

(* Lines 231-258, 292-298: echo, pwd, jobs and cd change none of the       *)
(* variables and go back to the prompt.                                    *)
Builtin ==
    /\ AtPrompt
    /\ UNCHANGED vars

(* Line 145: end of input ends the shell and kills nothing. *)
Eof ==
    /\ AtPrompt
    /\ pc' = "exited"
    /\ UNCHANGED <<sfs_vars, sut_vars, Tracking, Kernel, Locals, active_pid, handling>>

(* Lines 260-266: exit kills the recorded processes and ends the shell. *)
Exit ==
    /\ AtPrompt
    /\ LET ids == {processes[i] : i \in {j \in BgIdx : j < numBgProcesses}}
           killed == ids \cap running
       IN  /\ running' = running \ killed
           /\ zombies' = zombies \cup killed
    /\ pc' = "exited"
    /\ UNCHANGED <<sfs_vars, sut_vars, Tracking, Locals, active_pid, started_bg,
                   sigchld, handling>>

(* Lines 268-290: fg n takes entry n out of the array and waits for it. *)
Fg ==
    /\ AtPrompt
    /\ \E bg_index \in 0 .. MAX_BG_PROCESSES :
          IF bg_index < numBgProcesses
          THEN LET bg_pid == processes[bg_index]
                   r == remove_process(processes, numBgProcesses, bg_pid)
               IN  IF r.found # 0
                   THEN /\ processes' = r.processes
                        /\ numBgProcesses' = numBgProcesses - 1
                        /\ active_pid' = bg_pid
                        /\ pid' = bg_pid
                        /\ pc' = "waitpid"
                   ELSE UNCHANGED <<Tracking, active_pid, pid, pc>>
          ELSE UNCHANGED <<Tracking, active_pid, pid, pc>>
    /\ UNCHANGED <<sfs_vars, sut_vars, Kernel, bg, handling>>

(* Lines 300-304: every other command forks first, whatever the number of  *)
(* background processes; b is the trailing & of the line.                  *)
Fork ==
    /\ AtPrompt
    /\ \E b \in {0, 1} :
          LET free == Pids \ (running \cup zombies)
          IN  IF free = {}
              THEN /\ pc' = "exited"
                   /\ UNCHANGED <<Locals, running, started_bg>>
              ELSE \E p \in free :
                      /\ running' = running \cup {p}
                      /\ started_bg' = IF b = 1 THEN started_bg \cup {p}
                                       ELSE started_bg
                      /\ pid' = p
                      /\ bg' = b
                      /\ pc' = "forked"
    /\ UNCHANGED <<sfs_vars, sut_vars, Tracking, active_pid, zombies, sigchld, handling>>

(* Lines 385-406: the parent after fork.  A foreground child is waited     *)
(* for; a background child is recorded if the array has room, else only a  *)
(* message is printed.                                                     *)
Parent ==
    /\ pc = "forked"
    /\ ~handling
    /\ IF bg = 0
       THEN /\ active_pid' = pid
            /\ pc' = "waitpid"
            /\ UNCHANGED <<Tracking, Locals>>
       ELSE /\ IF numBgProcesses >= MAX_BG_PROCESSES
               THEN UNCHANGED Tracking
               ELSE /\ processes' = [processes EXCEPT ![numBgProcesses] = pid]
                    /\ numBgProcesses' = numBgProcesses + 1
            /\ pc' = "getcmd"
            /\ pid' = -1
            /\ bg' = 0
            /\ UNCHANGED active_pid
    /\ UNCHANGED <<sfs_vars, sut_vars, Kernel, handling>>

(* Lines 278-279, 391-394: waitpid(pid, NULL, 0) returns once the child    *)
(* has exited, collecting it unless handle_sigchld already has.            *)
Waited ==
    /\ pc = "waitpid"
    /\ ~handling
    /\ pid \notin running
    /\ zombies' = zombies \ {pid}
    /\ started_bg' = started_bg \ {pid}
    /\ active_pid' = -1
    /\ pid' = -1
    /\ bg' = 0
    /\ pc' = "getcmd"
    /\ UNCHANGED <<sfs_vars, sut_vars, Tracking, running, sigchld, handling>>

(* Lines 305-383: a child ends, by the exit of the program it executes or  *)
(* of the failed execvp; the kernel raises SIGCHLD.                        *)
ChildExit ==
    /\ pc # "exited"
    /\ \E p \in running :
          /\ running' = running \ {p}
          /\ zombies' = zombies \cup {p}
    /\ sigchld' = TRUE
    /\ UNCHANGED <<sfs_vars, sut_vars, Tracking, Locals, active_pid, pc, started_bg,
                   handling>>

(* handle_sigint (lines 94-101): CTRL-C kills the foreground child. *)
Sigint ==
    /\ pc # "exited"
    /\ ~handling
    /\ active_pid \in running
    /\ running' = running \ {active_pid}
    /\ zombies' = zombies \cup {active_pid}
    /\ sigchld' = TRUE
    /\ UNCHANGED <<sfs_vars, sut_vars, Tracking, Locals, active_pid, pc, started_bg,
                   handling>>

(* handle_sigchld (lines 119-128): entered on a pending SIGCHLD; each turn *)
(* of its loop collects one exited child, in the order the kernel gives    *)
(* them, and takes it out of the array; it returns when waitpid finds no   *)
(* exited child.                                                           *)
SigchldEnter ==
    /\ pc # "exited"
    /\ sigchld
    /\ ~handling
    /\ handling' = TRUE
    /\ sigchld' = FALSE
    /\ UNCHANGED <<sfs_vars, sut_vars, Tracking, Locals, active_pid, pc, running,
                   zombies, started_bg>>

SigchldReap ==
    /\ handling
    /\ \E p \in zombies :
          LET r == remove_process(processes, numBgProcesses, p)
          IN  /\ zombies' = zombies \ {p}
              /\ started_bg' = started_bg \ {p}
              /\ processes' = r.processes
              /\ numBgProcesses' = IF r.found # 0 THEN numBgProcesses - 1
                                   ELSE numBgProcesses
    /\ UNCHANGED <<sfs_vars, sut_vars, Locals, active_pid, pc, running, sigchld,
                   handling>>

SigchldReturn ==
    /\ handling
    /\ zombies = {}
    /\ handling' = FALSE
    /\ UNCHANGED <<sfs_vars, sut_vars, Tracking, Locals, active_pid, pc, Kernel>>

ShellNext ==
    \/ Builtin
    \/ Eof
    \/ Exit
    \/ Fg
    \/ Fork
    \/ Parent
    \/ Waited
    \/ ChildExit
    \/ Sigint
    \/ SigchldEnter
    \/ SigchldReap
    \/ SigchldReturn

ShellSpec == Init /\ [][ShellNext]_vars

(***************************************************************************)
(* C30.  Background process limit (shell): at any time at most             *)
(* MAX_BG_PROCESSES child processes started with a trailing & are running; *)
(* a background command issued while MAX_BG_PROCESSES of them are running  *)
(* starts no further running process.                                      *)
(***************************************************************************)
RunningBg == running \cap started_bg

C30_BackgroundLimit == Cardinality(RunningBg) <= MAX_BG_PROCESSES

(***************************************************************************)
(* C31.  Disk mirrors memory at call boundaries: after every API call,     *)
(* whatever its arguments and outcome, the inode table, the directory      *)
(* table and the bitmap on disk equal their copies in memory.              *)
(***************************************************************************)
DiskMirrors(s) ==
    /\ s.disk.inodes = s.inodes
    /\ s.disk.root = s.root
    /\ s.disk.bitmap = s.free_blocks

(* C31: after every call the tables on disk equal the tables in memory. *)
C31_DiskMirrorsMemory == ~ub => DiskMirrors(St)

(***************************************************************************)
(* The block-device writes of one call, in the order the code issues them: *)
(* each entry names the region written and holds the disk after the write. *)
(* A call stopped between two writes leaves the disk of the entry before   *)
(* the stop, the disk before the call when it stops before the first.      *)
(***************************************************************************)
Written(op, d) == [op |-> op, disk |-> d]

(* Line 385: one entry for each turn of the block loop that stores bytes. *)
RECURSIVE fwrite_data_writes(_, _, _)
fwrite_data_writes(d, L, buf) ==
    IF /\ ~L.brk
       /\ ~L.ub
       /\ L.did_write_to_disk = 1
       /\ L.bytes_to_write > 0
       /\ L.current_block < MAX_DATA_BLOCKS_PER_FILE - 1
    THEN LET L1 == fwrite_step(L, buf)
         IN  (IF L1.bytes_written > L.bytes_written
              THEN <<Written("data", [d EXCEPT !.data = L1.data])>>
              ELSE <<>>)
             \o fwrite_data_writes(d, L1, buf)
    ELSE <<>>

(* The flush with the bitmap written before the inode table. *)
fwrite_flush_writes_bitmap_first(s, fileID, length, L) ==
    LET F == fwrite_flush(s, fileID, length, L).st
        d0 == [s.disk EXCEPT !.data = L.data]
        d1 == [d0 EXCEPT !.data = F.disk.data]
        d2 == [d1 EXCEPT !.bitmap = F.disk.bitmap]
        d3 == [d2 EXCEPT !.inodes = F.disk.inodes]
    IN  IF L.bytes_to_write # length
        THEN (IF L.did_load_ptr_buff = 1 THEN <<Written("indirect", d1)>>
              ELSE <<>>)
             \o <<Written("bitmap", d2), Written("inodes", d3)>>
        ELSE <<>>

(* Lines 398-405: the index block, the inode table, the bitmap. *)
fwrite_flush_writes(s, fileID, length, L) ==
    LET F == fwrite_flush(s, fileID, length, L).st
        d0 == [s.disk EXCEPT !.data = L.data]
        d1 == [d0 EXCEPT !.data = F.disk.data]
        d2 == [d1 EXCEPT !.inodes = F.disk.inodes]
        d3 == [d2 EXCEPT !.bitmap = F.disk.bitmap]
    IN  IF L.bytes_to_write # length
        THEN (IF L.did_load_ptr_buff = 1 THEN <<Written("indirect", d1)>>
              ELSE <<>>)
             \o <<Written("inodes", d2), Written("bitmap", d3)>>
        ELSE <<>>

fwrite_writes(s, fileID, buf, length) ==
    IF fileID \notin InodeIdx \/ sfs_fwrite(s, fileID, buf, length).ub
    THEN <<>>
    ELSE LET f == s.fdt[fileID]
         IN  IF \/ length <= 0
                \/ f.inode <= 0
                \/ f.rwptr < 0
                \/ f.rwptr > s.inodes[f.inode].size
                \/ f.rwptr >= MAX_DATA_BLOCKS_PER_FILE * BLOCK_SIZE
             THEN <<>>
             ELSE LET L0 == fwrite_locals(s, fileID, length)
                  IN  fwrite_data_writes(s.disk, L0, buf)
                      \o fwrite_flush_writes(s, fileID, length,
                                             fwrite_loop(L0, buf))

(* Lines 569-590: the blocks sfs_remove fills with zeros, in its order:    *)
(* the direct blocks, the blocks of the slots, the index block.            *)
remove_zeroed(s, inode) ==
    LET n == s.inodes[inode]
        direct == SelectSeq([i \in 1 .. NUM_DIRECT_POINTERS |-> n.direct[i - 1]],
                            LAMBDA b : b > 0)
        ptr_buff == AsPtrBuff(s.disk.data[n.indirect])
        slots == SelectSeq([i \in 1 .. (NUM_POINTERS_IN_INDIRECT - 1) |->
                              ptr_buff[i - 1]],
                           LAMBDA b : b > 0)
    IN  IF n.indirect > 0 THEN direct \o slots \o <<n.indirect>> ELSE direct

RECURSIVE zero_writes(_, _)
zero_writes(d, blocks) ==
    IF blocks = <<>> THEN <<>>
    ELSE LET d1 == [d EXCEPT !.data[Head(blocks)] = ZeroBlock]
         IN  <<Written("zero", d1)>> \o zero_writes(d1, Tail(blocks))

(* Lines 563-602: the zeroed blocks, then the three tables. *)
remove_writes(s0, file) ==
    LET sc == remove_scan(s0, file, 0, -1)
        r == sfs_remove(s0, file)
    IN  IF sc.inode > 0 /\ sc.st.inodes[sc.inode].link_cnt = 1 /\ ~r.ub
        THEN LET z == zero_writes(s0.disk, remove_zeroed(sc.st, sc.inode))
                 d0 == [s0.disk EXCEPT !.data = r.st.disk.data]
                 d1 == [d0 EXCEPT !.inodes = r.st.disk.inodes]
                 d2 == [d1 EXCEPT !.root = r.st.disk.root]
                 d3 == [d2 EXCEPT !.bitmap = r.st.disk.bitmap]
             IN  z \o <<Written("inodes", d1), Written("root", d2),
                        Written("bitmap", d3)>>
        ELSE <<>>

(* Lines 241-242: a creating open writes the inode table, then the         *)
(* directory table; an open of an existing name writes nothing.            *)
fopen_writes(s, name) ==
    LET o == sfs_fopen(s, name)
        d1 == [s.disk EXCEPT !.inodes = o.st.disk.inodes]
        d2 == [d1 EXCEPT !.root = o.st.disk.root]
    IN  IF o.ret >= 1 /\ EntryOf(s, name) = -1
        THEN <<Written("inodes", d1), Written("root", d2)>>
        ELSE <<>>

(* The disk a call leaves when all its writes are done. *)
LastDisk(s, log) == IF log = <<>> THEN s.disk ELSE log[Len(log)].disk

(* The logs end on the disk the calls end on. *)
WritesAgree ==
    /\ \A fd \in FileIDs, B \in Buffers :
           LET w == sfs_fwrite(St, fd, B, Len(B))
           IN  ~w.ub => LastDisk(St, fwrite_writes(St, fd, B, Len(B))) = w.st.disk
    /\ \A name \in Names :
           /\ LET r == sfs_remove(St, name)
              IN  ~r.ub => LastDisk(St, remove_writes(St, name)) = r.st.disk
           /\ LastDisk(St, fopen_writes(St, name)) = sfs_fopen(St, name).st.disk

(***************************************************************************)
(* C32.  Flush ordering: within one write call every data-block write      *)
(* precedes the write-back of the index block, which precedes the write of *)
(* the inode table, which precedes the write of the bitmap; within one     *)
(* remove call the zeroing writes precede the inode table, then the        *)
(* directory table, then the bitmap; within one creating open the inode    *)
(* table precedes the directory table.                                     *)
(***************************************************************************)
Rank(op) ==
    CASE op = "data" -> 0
      [] op = "zero" -> 0
      [] op = "indirect" -> 1
      [] op = "inodes" -> 2
      [] op = "root" -> 3
      [] op = "bitmap" -> 4

(* The block writes come first; each table is written once, in rank order. *)
InOrder(log, ops) ==
    /\ \A k \in 1 .. Len(log) : log[k].op \in ops
    /\ \A j \in 1 .. Len(log), k \in 1 .. Len(log) :
           j < k => /\ Rank(log[j].op) <= Rank(log[k].op)
                    /\ Rank(log[k].op) > 0 => Rank(log[j].op) < Rank(log[k].op)

(* The file system once more, as the specification of the properties that *)
(* are stated call by call (C32, C35): the order of the block writes of a  *)
(* call and the change of a size by a call.                                *)
PerCallSpec == Init /\ [][Next]_vars

(* C32: every call writes its data blocks before its tables, and the       *)
(* tables in the order index block, inode table, directory, bitmap.        *)
(* Checked for every call the state machine can take: a call is taken     *)
(* from the states with calls < MaxCalls.                                  *)
C32_FlushOrdering ==
    calls < MaxCalls =>
    /\ \A fd \in FileInodeIdx, B \in Buffers :
           LET log == fwrite_writes(St, fd, B, Len(B))
           IN  fdt[fd].inode >= 1
               => /\ InOrder(log, {"data", "indirect", "inodes", "bitmap"})
                  /\ log # <<>> => /\ log[Len(log)].op = "bitmap"
                                   /\ log[Len(log) - 1].op = "inodes"
    /\ \A name \in Names :
           LET rlog == remove_writes(St, name)
               olog == fopen_writes(St, name)
           IN  /\ InOrder(rlog, {"zero", "inodes", "root", "bitmap"})
               /\ rlog # <<>>
                  => [k \in 1 .. 3 |-> rlog[Len(rlog) - 3 + k].op]
                       = <<"inodes", "root", "bitmap">>
               /\ olog # <<>> => [k \in 1 .. 2 |-> olog[k].op]
                                   = <<"inodes", "root">>

(* A file through which one write stores two data blocks and the index     *)
(* block before the tables, and whose removal zeroes three blocks before   *)
(* the tables.                                                             *)
C32_Witness ==
    /\ ~ub
    /\ calls < MaxCalls
    /\ \E fd \in FileInodeIdx, B \in Buffers :
          LET log == fwrite_writes(St, fd, B, Len(B))
          IN  [k \in 1 .. Len(log) |-> log[k].op]
                = <<"data", "data", "indirect", "inodes", "bitmap">>
    /\ \E name \in RealNames :
          LET rlog == remove_writes(St, name)
          IN  [k \in 1 .. Len(rlog) |-> rlog[k].op]
                = <<"zero", "zero", "zero", "inodes", "root", "bitmap">>

(***************************************************************************)
(* C33.  Crash during write never exposes unwritten data: if execution     *)
(* stops between any two block-device writes of a write call, then on disk *)
(* every file-relative block index below ceil(on-disk size / BLOCK_SIZE)   *)
(* of the file has an on-disk pointer (direct, or through the on-disk      *)
(* index block) to a block whose bytes below the on-disk size were fully   *)
(* written: each is the byte the file had there before the call or the     *)
(* byte the call was given for that offset.  At worst the tail of the      *)
(* interrupted write is lost.                                              *)
(***************************************************************************)
(* The block of file-relative index b of inode i as the disk d has it. *)
DiskBlockOf(d, i, b) ==
    IF b < NUM_DIRECT_POINTERS THEN d.inodes[i].direct[b]
    ELSE IF d.inodes[i].indirect \in DataBlocks
         THEN AsPtrBuff(d.data[d.inodes[i].indirect])[b - NUM_DIRECT_POINTERS]
         ELSE 0

(* The disks a write call can be stopped on: before its first write and    *)
(* after each of its writes.                                               *)
CrashDisks(s, log) == {s.disk} \cup {log[k].disk : k \in 1 .. Len(log)}

(* On disk d the file of inode i shows, below its size, only bytes of the  *)
(* disk d0 before the call or bytes of the buffer B written at offset r.   *)
NothingUnwritten(d, d0, i, r, B) ==
    \A off \in 0 .. (d.inodes[i].size - 1) :
        LET b == off \div BLOCK_SIZE
            p == DiskBlockOf(d, i, b)
            p0 == DiskBlockOf(d0, i, b)
        IN  /\ p \in DataBlocks
            /\ \/ /\ off < d0.inodes[i].size
                  /\ p0 \in DataBlocks
                  /\ d.data[p][off % BLOCK_SIZE] = d0.data[p0][off % BLOCK_SIZE]
               \/ /\ off >= r
                  /\ off < r + Len(B)
                  /\ d.data[p][off % BLOCK_SIZE] = B[off - r + 1]

(* C33: every disk that a write stopped between two block writes can leave *)
(* holds, below the on-disk size, only old bytes and bytes of the buffer.  *)
C33_CrashDuringWrite ==
    \A fd \in FileInodeIdx, B \in Buffers :
        fdt[fd].inode >= 1
        => \A d \in CrashDisks(St, fwrite_writes(St, fd, B, Len(B))) :
               NothingUnwritten(d, disk, fdt[fd].inode, fdt[fd].rwptr, B)

(***************************************************************************)
(* C34  Per-inode state machine.  For every inode i >= 1, link_cnt goes    *)
(* from 0 to 1 only in an open whose name matches no active directory      *)
(* entry, and from 1 to 0 only in a remove that names the file of inode i; *)
(* close, seek, read, write, size query, enumeration, the open of an       *)
(* existing name and mksfs(0) change no link_cnt.                          *)
(***************************************************************************)
LinkCnt(s) == [i \in FileInodeIdx |-> s.inodes[i].link_cnt]
Allocates(s, t, i) == s.inodes[i].link_cnt = 0 /\ t.inodes[i].link_cnt = 1
Frees(s, t, i) == s.inodes[i].link_cnt = 1 /\ t.inodes[i].link_cnt = 0
Names_i(s, i) == IF s.root[i - 1].mode = 1 THEN {s.root[i - 1].names} ELSE {}

OpenTransitions ==
    \A name \in Names :
        LET t == sfs_fopen(St, name).st
        IN  /\ name \in ActiveNames(St) => LinkCnt(t) = LinkCnt(St)
            /\ \A i \in FileInodeIdx : ~Frees(St, t, i)

RemoveTransitions ==
    \A name \in Names :
        LET t == sfs_remove(St, name).st
        IN  \A i \in FileInodeIdx :
                /\ ~Allocates(St, t, i)
                /\ Frees(St, t, i) => name \in Names_i(St, i)

OtherCallsKeepLinkCnt ==
    /\ LinkCnt(mksfs(St, 0).st) = LinkCnt(St)
    /\ LinkCnt(sfs_getnextfilename(St).st) = LinkCnt(St)
    /\ \A fileID \in FileIDs :
          /\ LinkCnt(sfs_fclose(St, fileID).st) = LinkCnt(St)
          /\ \A loc \in Locs : LinkCnt(sfs_fseek(St, fileID, loc).st) = LinkCnt(St)
          /\ \A length \in Lengths :
                /\ LinkCnt(sfs_fread(St, fileID, length).st) = LinkCnt(St)
                /\ LinkCnt(sfs_fwrite(St, fileID, Pattern(1, length), length).st)
                   = LinkCnt(St)

(* C34: link_cnt moves only as the per-inode state machine allows. *)
C34_LinkCntTransitions ==
    /\ OpenTransitions
    /\ RemoveTransitions
    /\ OtherCallsKeepLinkCnt

(***************************************************************************)
(* C35  Size monotonicity.  While inode i >= 1 stays allocated (from the   *)
(* open that allocates it to the remove that frees it) no call decreases   *)
(* its size; only sfs_fwrite changes the size, and only upward.            *)
(***************************************************************************)
StaysAllocated(s, t) ==
    {i \in FileInodeIdx : s.inodes[i].link_cnt = 1 /\ t.inodes[i].link_cnt = 1}
SizeKept(s, t) ==
    \A i \in StaysAllocated(s, t) : t.inodes[i].size = s.inodes[i].size
SizeGrows(s, t) ==
    \A i \in StaysAllocated(s, t) : t.inodes[i].size >= s.inodes[i].size

(* C35: no call decreases the size of an inode that stays allocated, and   *)
(* only sfs_fwrite changes it.  Checked for every call the state machine   *)
(* can take: a call is taken from the states with calls < MaxCalls.        *)
C35_SizeMonotonic ==
    (calls < MaxCalls /\ Allocated(St) # {}) =>
    /\ SizeKept(St, mksfs(St, 0).st)
    /\ SizeKept(St, sfs_getnextfilename(St).st)
    /\ \A name \in Names :
          /\ SizeKept(St, sfs_fopen(St, name).st)
          /\ SizeKept(St, sfs_remove(St, name).st)
    /\ \A fileID \in FileIDs :
          /\ SizeKept(St, sfs_fclose(St, fileID).st)
          /\ \A loc \in Locs : SizeKept(St, sfs_fseek(St, fileID, loc).st)
          /\ \A length \in Lengths :
                /\ SizeKept(St, sfs_fread(St, fileID, length).st)
                /\ \A tag \in (IF length > 0 THEN 1 .. MaxTag ELSE {1}) :
                      SizeGrows(St, sfs_fwrite(St, fileID, Pattern(tag, length),
                                               length).st)

(* A file of one byte whose descriptor was moved back to offset 0: a write *)
(* of one byte leaves the size at 1, a write of three bytes takes it to 3. *)
C35_Witness ==
    \E fd \in FileInodeIdx :
        /\ calls < MaxCalls
        /\ fdt[fd].inode >= 1
        /\ inodes[fdt[fd].inode].link_cnt = 1
        /\ inodes[fdt[fd].inode].size = 1
        /\ fdt[fd].rwptr = 0
        /\ sfs_fwrite(St, fd, Pattern(2, 1), 1).ret = 1
        /\ sfs_fwrite(St, fd, Pattern(2, 1), 1).st.inodes[fdt[fd].inode].size = 1
        /\ sfs_fwrite(St, fd, Pattern(1, 3), 3).ret = 3
        /\ sfs_fwrite(St, fd, Pattern(1, 3), 3).st.inodes[fdt[fd].inode].size = 3

(***************************************************************************)
(* C36  Pointers stay in the data region.  In every reachable state every  *)
(* nonzero direct pointer, indirect pointer and index-block slot of an     *)
(* allocated inode is a block number of the data region                    *)
(* [DATA_BLOCKS_OFFSET, BITMAP_BLOCK_OFFSET), so that no write or remove   *)
(* writes through a pointer into the superblock, the tables or the bitmap. *)
(***************************************************************************)
InDataRegion(p) == p = 0 \/ p \in DataBlocks

PointersOf(s, i) ==
    {s.inodes[i].direct[k] : k \in DirectIdx}
    \cup {s.inodes[i].indirect}
    \cup (IF s.inodes[i].indirect \in DataBlocks
          THEN {AsPtrBuff(s.disk.data[s.inodes[i].indirect])[p] :
                    p \in 0 .. (NUM_POINTERS_IN_INDIRECT - 2)}
          ELSE {})

PointersInRegion(s) ==
    \A i \in FileInodeIdx :
        s.inodes[i].link_cnt = 1 => \A p \in PointersOf(s, i) : InDataRegion(p)

(* C36: the pointers of every allocated inode are in the data region.     *)
(* Checked in the state itself and in every state an open followed by a   *)
(* write to the opened file leads to.                                      *)
C36_PointersInDataRegion ==
    /\ PointersInRegion(St)
    /\ \A name \in Names :
          LET o == sfs_fopen(St, name)
          IN  o.ret > 0 =>
              \A B \in Buffers :
                  PointersInRegion(sfs_fwrite(o.st, o.ret, B, Len(B)).st)

(***************************************************************************)
(* C37  A write that returns 0 has no effect.  Whenever sfs_fwrite returns *)
(* 0 (failed precondition, file at its maximum size, no free block for the *)
(* first block it needs) the inode table with its indirect pointers, the   *)
(* bitmap, the descriptor's rwptr and every disk block are as before.      *)
(***************************************************************************)
SameFileState(s, t) ==
    /\ t.inodes = s.inodes
    /\ t.free_blocks = s.free_blocks
    /\ t.fdt = s.fdt
    /\ t.disk = s.disk

(* C37: a write that returns 0 leaves the file system as it was. *)
C37_ZeroWriteNoEffect ==
    \A fileID \in InodeIdx, length \in Lengths :
        \A tag \in (IF length > 0 THEN 1 .. MaxTag ELSE {1}) :
            LET r == sfs_fwrite(St, fileID, Pattern(tag, length), length)
            IN  (r.ret = 0 /\ ~r.ub) => SameFileState(St, r.st)

(***************************************************************************)
(* C38  File counter consistency.  After every call num_files equals the   *)
(* number of inodes i >= 1 with link_cnt = 1, which equals the number of   *)
(* directory entries with mode = 1; so sfs_getnextfilename returns 0 on    *)
(* its first call (cursor 0) only when no entry is active.                 *)
(***************************************************************************)
ActiveDirEntries(s) == {k \in DirIdx : s.root[k].mode = 1}

CounterConsistent ==
    /\ num_files = Cardinality(Allocated(St))
    /\ num_files = Cardinality(ActiveDirEntries(St))

FirstEnumerationMiss ==
    (curr_file = 0 /\ sfs_getnextfilename(St).ret = 0) => ActiveDirEntries(St) = {}

(* C38: num_files counts the allocated inodes and the active entries. *)
C38_FileCounter == CounterConsistent /\ FirstEnumerationMiss

(***************************************************************************)
(* The thread library of src/2/sut.c.  The kernel threads c_exec and       *)
(* i_exec and the caller of the library run concurrently; a step is a      *)
(* critical section of a semaphore, a swapcontext or setcontext, or a      *)
(* pthread call.  A task is the index of its descriptor.  sut_open stands  *)
(* for the four I/O calls, which differ only in the system call made on    *)
(* i_exec.                                                                 *)
(***************************************************************************)
Queues == <<readyQ, waitQ>>
Current == <<cur_c_thread, cur_i_thread>>
Cancellation == <<cancelstate, cancel_pending>>
Descriptors == <<tdescs, freed, numthreads>>

Other(k) == IF k = "c" THEN "i" ELSE "c"
Cur(k) == IF k = "c" THEN cur_c_thread ELSE cur_i_thread
QueueOf(k) == IF k = "c" THEN readyQ ELSE waitQ

(* The task whose context kernel thread k is executing, if any. *)
Executing(k) == IF exec_pc[k] \in TaskPos THEN {Cur(k)} ELSE {}

(* c_exec lines 47-70, i_exec lines 87-110, one turn of the loop up to the *)
(* swapcontext or the pthread_testcancel.  sem_wait is a cancellation      *)
(* point: a pending request is acted on there while the cancel state is    *)
(* enabled.                                                                *)
exec_loop(k) ==
    /\ ~sut_ub
    /\ UNCHANGED <<sfs_vars, shell_vars>>
    /\ exec_pc[k] = "loop"
    /\ IF cancelstate[k] = "enable" /\ cancel_pending[k]
       THEN /\ exec_pc' = [exec_pc EXCEPT ![k] = "cancelled"]
            /\ UNCHANGED <<Queues, Current, cancelstate>>
       ELSE IF QueueOf(k) # <<>>
       THEN /\ cancelstate' = [cancelstate EXCEPT ![k] = "disable"]
            /\ exec_pc' = [exec_pc EXCEPT ![k] = "swap"]
            /\ IF k = "c"
               THEN /\ cur_c_thread' = Head(readyQ)
                    /\ readyQ' = Tail(readyQ)
                    /\ UNCHANGED <<waitQ, cur_i_thread>>
               ELSE /\ cur_i_thread' = Head(waitQ)
                    /\ waitQ' = Tail(waitQ)
                    /\ UNCHANGED <<readyQ, cur_c_thread>>
       ELSE IF numthreads = 0
       THEN /\ cancelstate' = [cancelstate EXCEPT ![k] = "enable"]
            /\ exec_pc' = [exec_pc EXCEPT ![k] = "testcancel"]
            /\ UNCHANGED <<Queues, Current>>
       ELSE UNCHANGED <<Queues, Current, cancelstate, exec_pc>>
    /\ UNCHANGED <<threadcontext, cancel_pending, main_pc, Descriptors, steps,
                   sut_ub>>

(* c_exec line 71, i_exec line 111: pthread_testcancel with the cancel     *)
(* state enabled.                                                          *)
exec_testcancel(k) ==
    /\ ~sut_ub
    /\ UNCHANGED <<sfs_vars, shell_vars>>
    /\ exec_pc[k] = "testcancel"
    /\ exec_pc' = [exec_pc EXCEPT ![k] =
                      IF cancel_pending[k] THEN "cancelled" ELSE "loop"]
    /\ UNCHANGED <<Queues, Current, threadcontext, Cancellation, main_pc,
                   Descriptors, steps, sut_ub>>

(* c_exec line 66, i_exec line 106: swapcontext into the context stored in *)
(* the descriptor.  When the task is still executing on the other kernel   *)
(* thread, which has not saved the context yet, the stored context is an   *)
(* old one and two threads run on one stack: undefined behaviour.          *)
exec_swap(k) ==
    /\ ~sut_ub
    /\ UNCHANGED <<sfs_vars, shell_vars>>
    /\ exec_pc[k] = "swap"
    /\ exec_pc' = [exec_pc EXCEPT ![k] = threadcontext[Cur(k)]]
    /\ sut_ub' = (Cur(k) \in Executing(Other(k)))
    /\ UNCHANGED <<Queues, Current, threadcontext, Cancellation, main_pc,
                   Descriptors, steps>>

c_exec == exec_loop("c") \/ exec_testcancel("c") \/ exec_swap("c")
i_exec == exec_loop("i") \/ exec_testcancel("i") \/ exec_swap("i")

(* Lines 149-205, called between sut_init and sut_shutdown. *)
sut_create ==
    /\ ~sut_ub
    /\ UNCHANGED <<sfs_vars, shell_vars>>
    /\ main_pc = "run"
    /\ IF numthreads >= MAX_THREADS
       THEN UNCHANGED <<readyQ, threadcontext, Descriptors>>
       ELSE \E t \in Tasks :
                /\ t \notin tdescs
                /\ \A u \in Tasks \ tdescs : t <= u
                /\ threadcontext' = [threadcontext EXCEPT ![t] = "fn"]
                /\ tdescs' = tdescs \cup {t}
                /\ numthreads' = numthreads + 1
                /\ readyQ' = Append(readyQ, t)
                /\ UNCHANGED freed
    /\ UNCHANGED <<waitQ, Current, exec_pc, Cancellation, main_pc, steps, sut_ub>>

(* A task in its own code, on c_exec, about to call the library. *)
InTask == ~sut_ub /\ exec_pc["c"] = "fn"

(* Lines 210-214. *)
sut_yield_enqueue ==
    /\ InTask
    /\ UNCHANGED <<sfs_vars, shell_vars>>
    /\ steps[cur_c_thread] < MaxSteps
    /\ steps' = [steps EXCEPT ![cur_c_thread] = @ + 1]
    /\ readyQ' = Append(readyQ, cur_c_thread)
    /\ exec_pc' = [exec_pc EXCEPT !["c"] = "yield_swap"]
    /\ UNCHANGED <<waitQ, Current, threadcontext, Cancellation, main_pc,
                   Descriptors, sut_ub>>

(* Line 216: the context is saved and c_exec goes on after its line 66. *)
sut_yield_swap ==
    /\ ~sut_ub
    /\ UNCHANGED <<sfs_vars, shell_vars>>
    /\ exec_pc["c"] = "yield_swap"
    /\ threadcontext' = [threadcontext EXCEPT ![cur_c_thread] = "fn"]
    /\ exec_pc' = [exec_pc EXCEPT !["c"] = "loop"]
    /\ UNCHANGED <<Queues, Current, Cancellation, main_pc, Descriptors, steps,
                   sut_ub>>

sut_yield == sut_yield_enqueue \/ sut_yield_swap

(* Lines 219-237. *)
sut_exit ==
    /\ InTask
    /\ UNCHANGED <<sfs_vars, shell_vars>>
    /\ freed' = freed \cup {cur_c_thread}
    /\ cur_c_thread' = NULL
    /\ numthreads' = numthreads - 1
    /\ exec_pc' = [exec_pc EXCEPT !["c"] = "loop"]
    /\ UNCHANGED <<Queues, cur_i_thread, threadcontext, Cancellation, main_pc,
                   tdescs, steps, sut_ub>>

(* Lines 242-246: the task puts itself on waitQ while it is running. *)
sut_open_enqueue ==
    /\ InTask
    /\ UNCHANGED <<sfs_vars, shell_vars>>
    /\ steps[cur_c_thread] < MaxSteps
    /\ steps' = [steps EXCEPT ![cur_c_thread] = @ + 1]
    /\ waitQ' = Append(waitQ, cur_c_thread)
    /\ exec_pc' = [exec_pc EXCEPT !["c"] = "open_swap_c"]
    /\ UNCHANGED <<readyQ, Current, threadcontext, Cancellation, main_pc,
                   Descriptors, sut_ub>>

(* Line 248: only now is the context saved. *)
sut_open_swap_c ==
    /\ ~sut_ub
    /\ UNCHANGED <<sfs_vars, shell_vars>>
    /\ exec_pc["c"] = "open_swap_c"
    /\ threadcontext' = [threadcontext EXCEPT ![cur_c_thread] = "open_io"]
    /\ exec_pc' = [exec_pc EXCEPT !["c"] = "loop"]
    /\ UNCHANGED <<Queues, Current, Cancellation, main_pc, Descriptors, steps,
                   sut_ub>>

(* Lines 251-265, on i_exec: fopen, then the task puts itself on readyQ. *)
sut_open_io ==
    /\ ~sut_ub
    /\ UNCHANGED <<sfs_vars, shell_vars>>
    /\ exec_pc["i"] = "open_io"
    /\ readyQ' = Append(readyQ, cur_i_thread)
    /\ exec_pc' = [exec_pc EXCEPT !["i"] = "open_swap_i"]
    /\ UNCHANGED <<waitQ, Current, threadcontext, Cancellation, main_pc,
                   Descriptors, steps, sut_ub>>

(* Line 267; line 270 returns into the task's code when c_exec resumes it. *)
sut_open_swap_i ==
    /\ ~sut_ub
    /\ UNCHANGED <<sfs_vars, shell_vars>>
    /\ exec_pc["i"] = "open_swap_i"
    /\ threadcontext' = [threadcontext EXCEPT ![cur_i_thread] = "fn"]
    /\ exec_pc' = [exec_pc EXCEPT !["i"] = "loop"]
    /\ UNCHANGED <<Queues, Current, Cancellation, main_pc, Descriptors, steps,
                   sut_ub>>

sut_open == sut_open_enqueue \/ sut_open_swap_c \/ sut_open_io \/ sut_open_swap_i

(* Lines 361-362: the two requests; lines 365-366: the two joins, each     *)
(* waiting until its thread has acted on the request; lines 369-377.       *)
sut_shutdown ==
    /\ ~sut_ub
    /\ UNCHANGED <<sfs_vars, shell_vars>>
    /\ \/ /\ main_pc = "run"
          /\ cancel_pending' = [cancel_pending EXCEPT !["i"] = TRUE]
          /\ main_pc' = "cancel_c"
       \/ /\ main_pc = "cancel_c"
          /\ cancel_pending' = [cancel_pending EXCEPT !["c"] = TRUE]
          /\ main_pc' = "join_i"
       \/ /\ main_pc = "join_i"
          /\ exec_pc["i"] = "cancelled"
          /\ main_pc' = "join_c"
          /\ UNCHANGED cancel_pending
       \/ /\ main_pc = "join_c"
          /\ exec_pc["c"] = "cancelled"
          /\ main_pc' = "returned"
          /\ UNCHANGED cancel_pending
    /\ UNCHANGED <<Queues, Current, threadcontext, exec_pc, cancelstate,
                   Descriptors, steps, sut_ub>>

SutNext ==
    \/ c_exec
    \/ i_exec
    \/ sut_create
    \/ sut_yield
    \/ sut_exit
    \/ sut_open
    \/ sut_shutdown

SutSpec == Init /\ [][SutNext]_vars

(***************************************************************************)
(* C39  No task runs on both executors.  i_exec resumes a task's context   *)
(* only after c_exec has saved it with swapcontext, and c_exec only after  *)
(* i_exec has saved it: in no interleaving is one task's context executing *)
(* on both kernel threads.                                                 *)
(***************************************************************************)
C39_OneExecutorPerTask == Executing("c") \cap Executing("i") = {}

(***************************************************************************)
(* C40  Shutdown waits for all tasks.  Neither executor thread is          *)
(* cancelled, and sut_shutdown does not return, while a task created by    *)
(* sut_create has not reached sut_exit, the tasks still in readyQ or waitQ *)
(* included.                                                               *)
(***************************************************************************)
Unfinished == tdescs \ freed

(* C40: no executor is cancelled and sut_shutdown has not returned while   *)
(* a created task has not reached sut_exit.                                *)
C40_ShutdownWaits ==
    (main_pc = "returned" \/ \E k \in Executors : exec_pc[k] = "cancelled")
    => Unfinished = {}

(* The second half of C40: if every task reaches sut_exit, sut_shutdown    *)
(* returns.  It is a liveness property and needs the kernel's scheduling:  *)
(* each of the three threads that can take a step eventually takes one     *)
(* (weak fairness of c_exec, of i_exec with the task code running on them, *)
(* and of the caller).  Behaviours that end in undefined behaviour are     *)
(* left out.                                                               *)
SutFairSpec ==
    /\ SutSpec
    /\ WF_vars(c_exec)
    /\ WF_vars(i_exec)
    /\ WF_vars(sut_yield_swap)
    /\ WF_vars(sut_exit)
    /\ WF_vars(sut_open)
    /\ WF_vars(sut_shutdown)

ShutdownReturns ==
    (<>(main_pc # "run") /\ <>[](Unfinished = {}))
    => <>(main_pc = "returned" \/ sut_ub)

====
